---------------------------- MODULE Spec2Model ----------------------------
(***************************************************************************)
(* Automaton Auditor: the state model (src/state.py), the Chief Justice    *)
(* synthesis engine (src/nodes/justice.py) and the audit graph             *)
(* (src/graph.py) as a state machine.                                      *)
(*                                                                         *)
(* Python values are modelled as follows.                                  *)
(*   Optional[T]   a sequence: None is << >>, a value x is << x >>.        *)
(*   str           free text never enters the model as characters: a text  *)
(*                 is a record of the features the code inspects (its      *)
(*                 length and the outcome of each substring or regex test  *)
(*                 the code applies to it).  Identifiers (dimension ids,   *)
(*                 judge tags, dict keys) are TLA+ strings.                *)
(*   float         a fraction [num, den] of integers, den > 0.             *)
(*   dict          a function on the set of its keys.                      *)
(***************************************************************************)
EXTENDS Integers, Sequences, FiniteSets, Bags, TLC

VARIABLES
    rubric_dimensions,  \* AgentState["rubric_dimensions"]
    evidences,          \* AgentState["evidences"], reducer operator.ior
    opinions,           \* AgentState["opinions"], reducer operator.add
    final_report,       \* AgentState["final_report"]
    node,               \* per graph node: "idle", "running", "done"
    returned,           \* per graph node: the update it returned, when it has completed
    arrival,            \* the order in which the nodes' updates were merged
    started_after,      \* per graph node: the set of nodes done when it was started
    run,                \* the run of graph.invoke: "running", "END", "raised"
    report,             \* chief_justice_node's local final_report (the AuditReport it built)
    criterion_results,  \* chief_justice_node's local criterion_results
    raised,             \* the exception that ended the run, as an Optional
    call,               \* the last direct call of a constructor or function
    result              \* what that call returned (or the exception it raised)

vars == << rubric_dimensions, evidences, opinions, final_report, node, returned,
           arrival, started_after, run, report, criterion_results, raised,
           call, result >>

graph_vars == << evidences, final_report, node, returned, arrival, started_after, run >>

-----------------------------------------------------------------------------
(* Bounds of the model.                                                    *)

MaxDims == 2        \* longest rubric
MaxCriteria == 2    \* longest criteria list handed to the AuditReport constructor
MaxClaims == 2      \* most file paths a report claims
MaxResults == 4     \* longest list of criterion results a report text is generated from

-----------------------------------------------------------------------------
(* Python helpers.                                                         *)

None == << >>
Some(x) == << x >>
IsNone(o) == o = << >>
The(o) == o[1]

Range(s) == { s[i] : i \in 1..Len(s) }

RECURSIVE SumSeq(_)
SumSeq(s) == IF s = << >> THEN 0 ELSE Head(s) + SumSeq(Tail(s))

Max(S) == CHOOSE x \in S : \A y \in S : y <= x
Min(S) == CHOOSE x \in S : \A y \in S : x <= y

Abs(x) == IF x < 0 THEN -x ELSE x

\* next((x for x in s if ...), None), given the filtered list
FirstOf(hits) == IF hits = << >> THEN None ELSE Some(Head(hits))

\* Fractions num/den with den > 0.
Frac(n, d) == [num |-> n, den |-> d]
FracLess(a, b) == a.num * b.den < b.num * a.den
FracEq(a, b) == a.num * b.den = b.num * a.den
\* abs(a - b) > c
FracDiffExceeds(a, b, c) ==
    Abs(a.num * b.den - b.num * a.den) * c.den > c.num * a.den * b.den

-----------------------------------------------------------------------------
(* The rubric and the judges (inputs of the engine).                       *)

Judges == { "Prosecutor", "Defense", "TechLead" }

\* A rubric dimension {id, name, target_artifact}; name is a text: its length,
\* whether it contains "security" (case-insensitively) and whether the file-path
\* regex of validate_remediation matches inside it.
Dimension(id, len, sec, target_artifact) ==
    [id |-> id, name |-> [of |-> id, len |-> len, security |-> sec, file_path |-> FALSE],
     target_artifact |-> target_artifact]

\* "Safe Tool Engineering", "Graph Orchestration", "State Management Rigor"
DimensionPool ==
    << Dimension("safe_tool_engineering", 21, FALSE, "github_repo"),
       Dimension("graph_orchestration", 19, FALSE, "github_repo"),
       Dimension("state_management_rigor", 22, FALSE, "github_repo") >>

\* "Architectural Diagram Analysis", the dimension the vision detective answers
SwarmVisual == Dimension("swarm_visual", 30, FALSE, "pdf_images")

\* "Theoretical Depth", "Report Accuracy", the dimensions the doc detective answers
TheoreticalDepth == Dimension("theoretical_depth", 17, FALSE, "pdf_report")
ReportAccuracy == Dimension("report_accuracy", 15, FALSE, "pdf_report")

DimensionIds == { DimensionPool[i].id : i \in 1..Len(DimensionPool) } \cup { SwarmVisual.id }

\* "safe_tool_engineering" in dimension_id: a substring test, which among the
\* dimension ids of the model only the id itself passes
ContainsSafeToolEngineering(dimension_id) == dimension_id = "safe_tool_engineering"

\* The rubrics of the model, of up to MaxDims dimensions: the prefixes of the
\* pool, the same in reverse order, and the diagram dimension followed by a
\* prefix of the pool.
Reverse(s) == [i \in 1..Len(s) |-> s[Len(s) + 1 - i]]
Rubrics ==
    LET n == IF MaxDims < Len(DimensionPool) THEN MaxDims ELSE Len(DimensionPool)
        prefixes == { SubSeq(DimensionPool, 1, k) : k \in 1..n }
    IN  prefixes \cup { Reverse(r) : r \in prefixes }
        \cup { << SwarmVisual >> \o SubSeq(DimensionPool, 1, k) : k \in 0..(n - 1) }

-----------------------------------------------------------------------------
(* JudicialOpinion (src/state.py).                                         *)

\* An argument text, by what the code tests on it:
\*   len           len(argument)
\*   sentence_len  len of its first sentence, as _extract_complete_sentences cuts it
\*   reference     validate_argument: a file citation or an evidence reference
\*   critical      contains one of the critical_keywords
\*   positive      contains one of the positive_keywords
\*   violation     one of the security_violation_phrases: "lower" if the text contains
\*                 it as listed (in lower case), "mixed" if only with capitals
\*                 ("OS.SYSTEM() detected"), "none" if not at all
\*   security      lower() contains "security"
\*   missing       lower() contains "missing" or "absent"
\*   sentence_path the file-path regex of validate_remediation matches in its first sentence
ArgText(len, slen, ref, crit, pos, viol, sec, miss, spath) ==
    [len |-> len, sentence_len |-> slen, reference |-> ref, critical |-> crit,
     positive |-> pos, violation |-> viol, security |-> sec, missing |-> miss,
     sentence_path |-> spath]

\* "src/tools/repo_tools.py has an os.system() call: a security problem, unsanitized
\*  input reaches the shell. The rest of the tool layer is well structured."
ARG_VIOLATION == ArgText(150, 98, TRUE, TRUE, TRUE, "lower", TRUE, FALSE, TRUE)
\* "src/tools/repo_tools.py has an OS.SYSTEM() Call: a security problem, Unsanitized
\*  Input reaches the shell. The rest of the tool layer is well structured."
ARG_VIOLATION_CAPS == ArgText(150, 98, TRUE, TRUE, TRUE, "mixed", TRUE, FALSE, TRUE)
\* "The evidence shows good security practice and solid sandboxing, but the error
\*  handling is weak."
ARG_PRAISE == ArgText(96, 96, TRUE, TRUE, TRUE, "none", TRUE, FALSE, FALSE)
\* "The evidence found for this criterion is well organised, though parts are
\*  missing. See src/graph.py."
ARG_PLAIN == ArgText(101, 84, TRUE, TRUE, TRUE, "none", FALSE, TRUE, FALSE)
\* "Test argument"
ARG_SHORT == ArgText(13, 13, FALSE, FALSE, FALSE, "none", FALSE, FALSE, FALSE)
\* "The evidence found at src/state.py:12 is unremarkable in every respect I looked at."
ARG_NEUTRAL == ArgText(83, 83, TRUE, FALSE, FALSE, "none", FALSE, FALSE, TRUE)

ValidArguments == { ARG_VIOLATION, ARG_VIOLATION_CAPS, ARG_PRAISE, ARG_PLAIN }

\* str.lower(): capitals become lower case, so a phrase written with capitals
\* is found as listed afterwards.
lower(text) == [text EXCEPT !.violation = IF @ = "mixed" THEN "lower" ELSE @]

\* any(phrase in text for phrase in security_violation_phrases)
ContainsViolationPhrase(text) == text.violation = "lower"
AnyArguments == ValidArguments \cup { ARG_SHORT, ARG_NEUTRAL }

MinArgumentLen == 50
MaxArgumentLen == 3000
MinScore == 1
MaxScore == 5
Scores == MinScore..MaxScore

\* Field(min_length=1): criterion_id; validate_criterion_id: ^[a-z0-9_]+$
ValidCriterionId(id) == id \in DimensionIds \cup { "test_criterion" }

\* Field constraints and validators of JudicialOpinion: TRUE iff construction succeeds.
JudicialOpinion_accepts(judge, criterion_id, score, argument, cited_evidence) ==
    /\ judge \in Judges
    /\ ValidCriterionId(criterion_id)
    /\ score >= MinScore /\ score <= MaxScore
    /\ argument.len >= MinArgumentLen /\ argument.len <= MaxArgumentLen
    /\ argument.reference
    /\ (score <= 2 => argument.critical)
    /\ (score >= 4 => argument.positive)
    /\ Len(cited_evidence) <= 20

JudicialOpinion(judge, criterion_id, score, argument, cited_evidence) ==
    [judge |-> judge, criterion_id |-> criterion_id, score |-> score,
     argument |-> argument, cited_evidence |-> cited_evidence]

\* Evidence locations an opinion cites, and _extract_relative_path on them:
\*   "src/graph.py:42"                  -> ("src/graph.py", "42")
\*   "reports/interim_report.pdf"       -> ("reports/interim_report.pdf", None)
\*   "https://github.com/owner/repo"    -> None
\*   "not_found"                        -> None (no "." in it)
\*   "/tmp/auditor_repo_x/repo"         -> None (nothing after repo, no "." in it)
\* A returned path carries what the caller uses of it: len(file_path),
\* len(line_num) and whether the file-path regex of validate_remediation matches it.
Locations ==
    { "src/graph.py:42", "reports/interim_report.pdf", "https://github.com/owner/repo",
      "not_found", "/tmp/auditor_repo_x/repo" }
_extract_relative_path(location) ==
    IF location = "src/graph.py:42"
    THEN Some([file_path |-> "src/graph.py", line_num |-> Some("42"),
               len |-> 12, line_len |-> 2, file_regex |-> TRUE])
    ELSE IF location = "reports/interim_report.pdf"
    THEN Some([file_path |-> "reports/interim_report.pdf", line_num |-> None,
               len |-> 26, line_len |-> 0, file_regex |-> FALSE])
    ELSE None

-----------------------------------------------------------------------------
(* _synthesize_score (src/nodes/justice.py).                               *)

OpinionsOf(ops, judge) == SelectSeq(ops, LAMBDA op : op.judge = judge)

\* next((op.score for op in criterion_opinions if op.judge == judge), None)
ScoreOf(ops, judge) ==
    LET hit == FirstOf(OpinionsOf(ops, judge))
    IN  IF IsNone(hit) THEN None ELSE Some(The(hit).score)

\* [s for s in [prosecutor_score, defense_score, tech_lead_score] if s is not None]
PresentScores(p, d, t) == p \o d \o t

\* Weights of the default rule, in tenths: Tech Lead 0.4, Prosecutor 0.3, Defense 0.3.
TechLeadWeight == 4
ProsecutorWeight == 3
DefenseWeight == 3

WeightedSum(p, d, t) ==
    (IF IsNone(t) THEN 0 ELSE The(t) * TechLeadWeight)
    + (IF IsNone(p) THEN 0 ELSE The(p) * ProsecutorWeight)
    + (IF IsNone(d) THEN 0 ELSE The(d) * DefenseWeight)

WeightTotal(p, d, t) ==
    (IF IsNone(t) THEN 0 ELSE TechLeadWeight)
    + (IF IsNone(p) THEN 0 ELSE ProsecutorWeight)
    + (IF IsNone(d) THEN 0 ELSE DefenseWeight)

\* weighted_sum / weight_total is computed in IEEE-754 doubles, in which 0.3 and
\* 0.4 are not exact.  The double quotient differs from the exact mean by less
\* than 1e-15, which decides round() only where the exact mean is a tie k + 0.5:
\* there the double is below the tie (-1), on it (0) or above it (1).  With scores
\* in 1..5 the double is off the tie only when the Tech Lead is missing:
\*   (0.3*3 + 0.3*4) / 0.6 = 3.4999999999999996
\*   (0.3*4 + 0.3*5) / 0.6 = 4.500000000000001
\*   (0.3*2 + 0.3*5) / 0.6 = 3.5000000000000004
FloatSideOfTie(p, d, t) ==
    IF IsNone(t) /\ ~IsNone(p) /\ ~IsNone(d)
    THEN LET pair == { The(p), The(d) }
         IN  IF pair = { 3, 4 } THEN -1
             ELSE IF pair = { 4, 5 } \/ pair = { 2, 5 } THEN 1
             ELSE 0
    ELSE 0

\* Python 3 round(x) of a float: to the nearest integer, a tie to the even one.
\* num/den is the exact quotient and side where the double lies when that is a tie.
PyRound(num, den, side) ==
    LET floor == num \div den
        rem == num % den
    IN  IF 2 * rem < den THEN floor
        ELSE IF 2 * rem > den THEN floor + 1
        ELSE IF side < 0 THEN floor
        ELSE IF side > 0 THEN floor + 1
        ELSE IF floor % 2 = 0 THEN floor ELSE floor + 1

\* Fault: Rule 1 looking for the phrases in the argument as written, without lower().
SecurityOverrideCaseSensitive(p, ops, dimension_id) ==
    LET prosecutor_opinion == FirstOf(OpinionsOf(ops, "Prosecutor"))
    IN  /\ ~IsNone(p)
        /\ The(p) <= 2
        /\ ~IsNone(prosecutor_opinion)
        /\ ContainsViolationPhrase(The(prosecutor_opinion).argument)
        /\ ContainsSafeToolEngineering(dimension_id)

\* Fault: Rule 1 firing on any Prosecutor argument that mentions security.
SecurityOverrideOnMention(p, ops, dimension_id) ==
    LET prosecutor_opinion == FirstOf(OpinionsOf(ops, "Prosecutor"))
    IN  /\ ~IsNone(p)
        /\ The(p) <= 2
        /\ ~IsNone(prosecutor_opinion)
        /\ lower(The(prosecutor_opinion).argument).security
        /\ ContainsSafeToolEngineering(dimension_id)

\* Rule 1, Security Override: the condition under which line 194 returns.
SecurityOverrideFires(p, ops, dimension_id) ==
    LET prosecutor_opinion == FirstOf(OpinionsOf(ops, "Prosecutor"))
    IN  /\ ~IsNone(p)
        /\ The(p) <= 2
        /\ ~IsNone(prosecutor_opinion)
        /\ ContainsViolationPhrase(lower(The(prosecutor_opinion).argument))
        /\ ContainsSafeToolEngineering(dimension_id)

\* Fault: Rule 3 applied to every dimension.
FunctionalityWeightAnyDimension(t, dimension_id) ==
    /\ ~IsNone(t)
    /\ (The(t) >= 4 \/ The(t) <= 2)

\* Rule 3, Functionality Weight: the condition under which line 204 or 206 returns.
FunctionalityWeightFires(t, dimension_id) ==
    /\ dimension_id = "graph_orchestration"
    /\ ~IsNone(t)
    /\ (The(t) >= 4 \/ The(t) <= 2)

\* Fault: Rule 4 answering the lowest score, whatever the Tech Lead scored.
VarianceTakesMinimum(scores, t) == Min(Range(scores))

\* Rule 4, Variance Re-evaluation (lines 209-216), given score_variance > 2.
VarianceReevaluation(scores, t) ==
    LET lo == Min(Range(scores))
        hi == Max(Range(scores))
    IN  IF ~IsNone(t) /\ lo < The(t) /\ The(t) < hi
        THEN The(t)
        ELSE IF lo < 3 THEN lo + 1 ELSE lo

\* Fault: the weighted sum returned as it is, neither divided by the weights
\* present nor clamped.
WeightedSumUndivided(p, d, t) == WeightedSum(p, d, t)

\* Fault: the default rule as the plain mean of the scores given, each persona
\* weighing the same.
WeightedAverageEqualWeights(p, d, t) ==
    LET scores == PresentScores(p, d, t)
    IN  Max({ 1, Min({ 5, PyRound(SumSeq(scores), Len(scores), 0) }) })

\* Default rule (lines 218-236).
WeightedAverage(p, d, t) ==
    LET scores == PresentScores(p, d, t)
    IN  IF WeightTotal(p, d, t) > 0
        THEN LET final == PyRound(WeightedSum(p, d, t), WeightTotal(p, d, t),
                                  FloatSideOfTie(p, d, t))
             IN  Max({ 1, Min({ 5, final }) })
        ELSE PyRound(SumSeq(scores), Len(scores), 0)

\* Fault: Rule 1 returning 3 whatever the scores are, not min(3, max(scores)).
SynthesizeScoreFlatCap(prosecutor_score, defense_score, tech_lead_score, ops, synthesis_rules, dimension_id) ==
    LET scores == PresentScores(prosecutor_score, defense_score, tech_lead_score)
        lo == Min(Range(scores))
        hi == Max(Range(scores))
    IN  IF scores = << >> THEN 1
        ELSE IF SecurityOverrideFires(prosecutor_score, ops, dimension_id)
        THEN 3
        ELSE IF FunctionalityWeightFires(tech_lead_score, dimension_id)
        THEN (IF The(tech_lead_score) >= 4 THEN hi ELSE lo)
        ELSE IF hi - lo > 2
        THEN VarianceReevaluation(scores, tech_lead_score)
        ELSE WeightedAverage(prosecutor_score, defense_score, tech_lead_score)

_synthesize_score(prosecutor_score, defense_score, tech_lead_score, ops, synthesis_rules, dimension_id) ==
    LET scores == PresentScores(prosecutor_score, defense_score, tech_lead_score)
        lo == Min(Range(scores))
        hi == Max(Range(scores))
    IN  IF scores = << >> THEN 1
        ELSE IF SecurityOverrideFires(prosecutor_score, ops, dimension_id)
        THEN Min({ 3, hi })
        ELSE IF FunctionalityWeightFires(tech_lead_score, dimension_id)
        THEN (IF The(tech_lead_score) >= 4 THEN hi ELSE lo)
        ELSE IF hi - lo > 2
        THEN VarianceReevaluation(scores, tech_lead_score)
        ELSE WeightedAverage(prosecutor_score, defense_score, tech_lead_score)

-----------------------------------------------------------------------------
(* Texts the Chief Justice writes (src/nodes/justice.py).  A generated     *)
(* text is a record: text names the template it was built from, len is its *)
(* length, and the remaining fields are the tests the validators of        *)
(* src/state.py apply to it.                                               *)

Cap200(n) == IF n < 200 THEN n ELSE 200

\* "No judicial opinions were rendered for this criterion."
NoOpinionsDissent == [text |-> "no_opinions", len |-> 54]

\* "No significant dissent among judges."
NoSignificantDissent == [text |-> "no_significant_dissent", len |-> 36]

\* Fault: only the Prosecutor and the Defense are contrasted; the Tech Lead's
\* sentence is never written.
DissentProsecutorDefenseOnly(ops) ==
    LET prosecutor == FirstOf(OpinionsOf(ops, "Prosecutor"))
        defense == FirstOf(OpinionsOf(ops, "Defense"))
    IN  IF /\ ~IsNone(prosecutor) /\ ~IsNone(defense)
           /\ The(prosecutor).score # The(defense).score
        THEN [text |-> "contrast",
              len |-> 84 + Cap200(The(prosecutor).argument.len)
                         + Cap200(The(defense).argument.len)]
        ELSE NoSignificantDissent

_generate_dissent_summary(ops) ==
    LET prosecutor == FirstOf(OpinionsOf(ops, "Prosecutor"))
        defense == FirstOf(OpinionsOf(ops, "Defense"))
        tech_lead == FirstOf(OpinionsOf(ops, "TechLead"))
        part1 == IF /\ ~IsNone(prosecutor) /\ ~IsNone(defense)
                    /\ The(prosecutor).score # The(defense).score
                 THEN << 84 + Cap200(The(prosecutor).argument.len)
                            + Cap200(The(defense).argument.len) >>
                 ELSE << >>
        part2 == IF /\ ~IsNone(tech_lead) /\ ~IsNone(prosecutor)
                    /\ The(tech_lead).score # The(prosecutor).score
                 THEN << 73 + Cap200(The(tech_lead).argument.len) >>
                 ELSE << >>
        summary_parts == part1 \o part2
    IN  IF summary_parts = << >> THEN NoSignificantDissent
        ELSE [text |-> "contrast",
              len |-> SumSeq(summary_parts) + (Len(summary_parts) - 1)]

\* remediation=f"Implement {dimension_name} according to the rubric requirements."
NoOpinionsRemediation(dimension_name) ==
    [text |-> "implement_per_rubric", len |-> 48 + dimension_name.len,
     file_path |-> dimension_name.file_path, action |-> TRUE]

\* The cited locations that yield a path, first occurrence of each only
\* (seen_issues), as the loop at lines 369-393 keeps them.
RECURSIVE FileIssues(_, _)
FileIssues(cited, seen) ==
    IF cited = << >> THEN << >>
    ELSE LET path_info == _extract_relative_path(Head(cited))
             issue_key == << The(path_info).file_path, The(path_info).line_num >>
         IN  IF IsNone(path_info) THEN FileIssues(Tail(cited), seen)
             ELSE IF issue_key \in seen THEN FileIssues(Tail(cited), seen)
             ELSE << The(path_info) >> \o FileIssues(Tail(cited), seen \cup { issue_key })

_generate_remediation(dimension_id, dimension_name, final_score, ops) ==
    IF final_score >= 4
    THEN \* f"{dimension_name} meets requirements. Minor improvements may be possible."
         [text |-> "meets_requirements", len |-> dimension_name.len + 56,
          file_path |-> dimension_name.file_path, action |-> TRUE]
    ELSE
    LET prosecutor == FirstOf(OpinionsOf(ops, "Prosecutor"))
        tech_lead == FirstOf(OpinionsOf(ops, "TechLead"))
        header == << [len |-> 12 + dimension_name.len, file_path |-> dimension_name.file_path] >>
        file_issues == IF IsNone(prosecutor) THEN << >>
                       ELSE FileIssues(The(prosecutor).cited_evidence, {})
        \* f"- Fix {file_path} - Line {line_num}: {issue_summary}"
        fixes == [i \in 1..Len(file_issues) |->
                    [len |-> 9 + file_issues[i].len
                             + (IF IsNone(file_issues[i].line_num) THEN 0
                                ELSE 7 + file_issues[i].line_len)
                             + The(prosecutor).argument.sentence_len,
                     file_path |-> file_issues[i].file_regex
                                   \/ The(prosecutor).argument.sentence_path]]
        general == IF file_issues = << >> /\ ~IsNone(prosecutor)
                   THEN (IF The(prosecutor).argument.security
                         THEN << [len |-> 64, file_path |-> FALSE] >> ELSE << >>)
                        \o (IF The(prosecutor).argument.missing
                            THEN << [len |-> 28 + The(prosecutor).argument.sentence_len,
                                     file_path |-> The(prosecutor).argument.sentence_path] >>
                            ELSE << >>)
                   ELSE << >>
        guidance == IF ~IsNone(tech_lead)
                    THEN << [len |-> 22 + The(tech_lead).argument.sentence_len,
                             file_path |-> The(tech_lead).argument.sentence_path] >>
                    ELSE << >>
        specific == IF dimension_id = "state_management_rigor"
                    THEN << [len |-> 75, file_path |-> FALSE] >>
                    ELSE IF dimension_id = "graph_orchestration"
                    THEN << [len |-> 70, file_path |-> FALSE] >>
                    ELSE IF dimension_id = "structured_output_enforcement"
                    THEN << [len |-> 72, file_path |-> FALSE] >>
                    ELSE << >>
        remediation_parts == header \o fixes \o general \o guidance \o specific
    IN  [text |-> "to_improve",
         len |-> SumSeq([i \in 1..Len(remediation_parts) |-> remediation_parts[i].len])
                 + (Len(remediation_parts) - 1),
         file_path |-> \E i \in 1..Len(remediation_parts) : remediation_parts[i].file_path,
         action |-> TRUE]

-----------------------------------------------------------------------------
(* CriterionResult and AuditReport (src/state.py).                         *)

ScoresOf(judge_opinions) == [i \in 1..Len(judge_opinions) |-> judge_opinions[i].score]

\* max(scores) - min(scores) of a non-empty list of opinions
ScoreVariance(judge_opinions) ==
    Max(Range(ScoresOf(judge_opinions))) - Min(Range(ScoresOf(judge_opinions)))

\* Fault: validate_judge_opinions reduced to the length and score-range checks;
\* neither the set of judges nor the criterion ids are compared.
JudgeOpinionsCountOnly(judge_opinions) ==
    /\ Len(judge_opinions) = 3
    /\ \A i \in 1..Len(judge_opinions) : judge_opinions[i].score \in 1..5

\* Field(min_length=3, max_length=3) and validate_judge_opinions
JudgeOpinionsValid(judge_opinions) ==
    /\ Len(judge_opinions) = 3
    /\ { judge_opinions[i].judge : i \in 1..Len(judge_opinions) } = Judges
    /\ Cardinality({ judge_opinions[i].criterion_id : i \in 1..Len(judge_opinions) }) <= 1
    /\ \A i \in 1..Len(judge_opinions) : judge_opinions[i].score \in 1..5

\* Fault: validate_dissent_summary without its two dissent checks.
DissentSummaryUnchecked(final_score, judge_opinions, dissent_summary) ==
    LET scores == ScoresOf(judge_opinions)
    IN  ~(/\ (final_score < Min(Range(scores)) \/ final_score > Max(Range(scores)))
          /\ FracDiffExceeds(Frac(final_score, 1), Frac(SumSeq(scores), Len(scores)),
                             Frac(3, 2)))

\* validate_dissent_summary (model validator, run once the fields are valid)
DissentSummaryValid(final_score, judge_opinions, dissent_summary) ==
    LET scores == ScoresOf(judge_opinions)
        lo == Min(Range(scores))
        hi == Max(Range(scores))
        score_variance == hi - lo
        has_text == ~IsNone(dissent_summary) /\ The(dissent_summary).len > 0
    IN  /\ ~(score_variance > 2 /\ ~has_text)
        /\ ~(score_variance > 2 /\ has_text /\ The(dissent_summary).len < 50)
        \* abs(final_score - sum(scores) / len(scores)) > 1.5
        /\ ~(/\ (final_score < lo \/ final_score > hi)
             /\ FracDiffExceeds(Frac(final_score, 1), Frac(SumSeq(scores), Len(scores)),
                                Frac(3, 2)))

\* Field(min_length=50, max_length=2000) and validate_remediation
RemediationValid(remediation) ==
    /\ remediation.len >= 50
    /\ remediation.len <= 2000
    /\ remediation.file_path
    /\ remediation.action

\* TRUE iff CriterionResult(...) is constructed; otherwise a ValidationError is raised.
CriterionResult_accepts(dimension_id, dimension_name, final_score, judge_opinions, dissent_summary, remediation) ==
    /\ ValidCriterionId(dimension_id)
    /\ dimension_name.len >= 5 /\ dimension_name.len <= 200
    /\ final_score >= 1 /\ final_score <= 5
    /\ JudgeOpinionsValid(judge_opinions)
    /\ (~IsNone(dissent_summary) => The(dissent_summary).len <= 1000)
    /\ RemediationValid(remediation)
    /\ DissentSummaryValid(final_score, judge_opinions, dissent_summary)

CriterionResult(dimension_id, dimension_name, final_score, judge_opinions, dissent_summary, remediation) ==
    [dimension_id |-> dimension_id, dimension_name |-> dimension_name,
     final_score |-> final_score, judge_opinions |-> judge_opinions,
     dissent_summary |-> dissent_summary, remediation |-> remediation]

FinalScores(criteria) == [i \in 1..Len(criteria) |-> criteria[i].final_score]

\* The tolerance of validate_overall_score_consistency, 0.5
OverallTolerance == Frac(1, 2)

\* validate_overall_score_consistency
OverallScoreConsistent(overall_score, criteria) ==
    /\ criteria # << >>
    /\ ~FracDiffExceeds(overall_score,
                        Frac(SumSeq(FinalScores(criteria)), Len(criteria)),
                        OverallTolerance)
    /\ \A i \in 1..Len(criteria) : criteria[i].final_score \in 1..5

\* TRUE iff AuditReport(...) is constructed; otherwise a ValidationError is raised.
\* repo_url is [len, http]: its length and whether it parses as an http(s) URL
\* with a host; the summary and the plan are texts with the validators' tests.
AuditReport_accepts(repo_url, executive_summary, overall_score, criteria, remediation_plan) ==
    /\ repo_url.len >= 10 /\ repo_url.len <= 500 /\ repo_url.http
    /\ executive_summary.len >= 100 /\ executive_summary.len <= 5000
    /\ executive_summary.has_score /\ executive_summary.has_findings
    /\ ~FracLess(overall_score, Frac(1, 1)) /\ ~FracLess(Frac(5, 1), overall_score)
    /\ Len(criteria) >= 1
    /\ remediation_plan.len >= 100 /\ remediation_plan.len <= 10000
    /\ remediation_plan.has_priority /\ remediation_plan.has_actions
    /\ OverallScoreConsistent(overall_score, criteria)

AuditReport(repo_url, executive_summary, overall_score, criteria, remediation_plan) ==
    [repo_url |-> repo_url, executive_summary |-> executive_summary,
     overall_score |-> overall_score, criteria |-> criteria,
     remediation_plan |-> remediation_plan]

\* class AuditReport defines no to_markdown method (and pydantic.BaseModel has
\* none): final_report.to_markdown() raises AttributeError.
AuditReport_has_to_markdown == FALSE

-----------------------------------------------------------------------------
(* Report assembly and chief_justice_node (src/nodes/justice.py).          *)

IdsOf(criteria) == [i \in 1..Len(criteria) |-> criteria[i].dimension_id]

NameLens(criteria) == [i \in 1..Len(criteria) |-> criteria[i].dimension_name.len]

\* The summary text: its length, the validators' tests on it ("Overall Score"
\* and "Executive Summary" are always in it), the score distribution and the
\* dimensions it lists.  The audit date is 26 characters of isoformat().
_generate_executive_summary(overall_score, results, repo_url, git_commit_hash, model_metadata) ==
    LET critical_issues == SelectSeq(results, LAMBDA cr :
                               cr.final_score <= 2 /\ cr.dimension_name.security)
        strengths == SelectSeq(results, LAMBDA cr : cr.final_score >= 4)
        listed == SubSeq(strengths, 1, IF Len(strengths) < 3 THEN Len(strengths) ELSE 3)
    IN  [text |-> "executive_summary",
         len |-> 173 + repo_url.len
                 + (IF git_commit_hash.len > 0 THEN git_commit_hash.len - 3 ELSE 0)
                 + (IF model_metadata THEN 78 ELSE 0)
                 + 52 + 65
                 + (IF critical_issues = << >> THEN 0
                    ELSE 22 + 12 * Len(critical_issues) + SumSeq(NameLens(critical_issues)))
                 + (IF strengths = << >> THEN 0
                    ELSE 15 + 12 * Len(listed) + SumSeq(NameLens(listed))),
         has_score |-> TRUE,
         has_findings |-> TRUE,
         high_scores |-> Len(SelectSeq(results, LAMBDA cr : cr.final_score >= 4)),
         medium_scores |-> Len(SelectSeq(results, LAMBDA cr :
                                   2 <= cr.final_score /\ cr.final_score < 4)),
         low_scores |-> Len(SelectSeq(results, LAMBDA cr : cr.final_score < 2)),
         critical_issues |-> IdsOf(critical_issues),
         strengths |-> IdsOf(listed)]

\* Fault: the middle bucket taken as 2 <= final_score < 4 (the medium range
\* of the summary's score distribution), so that a score of 2 is listed twice.
RemediationPlanOverlapping(results) ==
    LET critical == SelectSeq(results, LAMBDA cr : cr.final_score <= 2)
        medium == SelectSeq(results, LAMBDA cr : 2 <= cr.final_score /\ cr.final_score < 4)
        high == SelectSeq(results, LAMBDA cr : cr.final_score >= 4)
    IN  [text |-> "remediation_plan", len |-> 156, has_priority |-> TRUE, has_actions |-> TRUE,
         critical |-> IdsOf(critical), medium |-> IdsOf(medium), high |-> IdsOf(high)]

\* The plan text: its length, the validators' tests on it (the three
\* "## Priority n" headers are always in it) and its three buckets.
_generate_comprehensive_remediation_plan(results) ==
    LET critical == SelectSeq(results, LAMBDA cr : cr.final_score <= 2)
        medium == SelectSeq(results, LAMBDA cr : 2 < cr.final_score /\ cr.final_score < 4)
        high == SelectSeq(results, LAMBDA cr : cr.final_score >= 4)
        RemLens(crs) == [i \in 1..Len(crs) |-> crs[i].remediation.len]
    IN  [text |-> "remediation_plan",
         len |-> 156
                 + 7 * Len(critical) + SumSeq(NameLens(critical)) + SumSeq(RemLens(critical))
                 + 7 * Len(medium) + SumSeq(NameLens(medium)) + SumSeq(RemLens(medium))
                 + (IF high = << >> THEN 0
                    ELSE 53 + 5 * Len(high) + SumSeq(NameLens(high)) + SumSeq(RemLens(high))),
         has_priority |-> TRUE,
         has_actions |-> TRUE,
         critical |-> IdsOf(critical),
         medium |-> IdsOf(medium),
         high |-> IdsOf(high)]

\* Lines 44-110: the CriterionResult constructor call for one dimension, as the
\* arguments the node passes.
CriterionArgs(dimension, ops, synthesis_rules) ==
    LET criterion_opinions == SelectSeq(ops, LAMBDA op : op.criterion_id = dimension.id)
        prosecutor_score == ScoreOf(criterion_opinions, "Prosecutor")
        defense_score == ScoreOf(criterion_opinions, "Defense")
        tech_lead_score == ScoreOf(criterion_opinions, "TechLead")
        scores == PresentScores(prosecutor_score, defense_score, tech_lead_score)
        final_score == IF scores = << >> THEN 1
                       ELSE _synthesize_score(prosecutor_score, defense_score, tech_lead_score,
                                              criterion_opinions, synthesis_rules, dimension.id)
        score_variance == IF Len(scores) >= 2
                          THEN Max(Range(scores)) - Min(Range(scores))
                          ELSE 0
    IN  IF criterion_opinions = << >>
        THEN CriterionResult(dimension.id, dimension.name, 1, << >>,
                             Some(NoOpinionsDissent), NoOpinionsRemediation(dimension.name))
        ELSE CriterionResult(dimension.id, dimension.name, final_score, criterion_opinions,
                             IF score_variance > 2
                             THEN Some(_generate_dissent_summary(criterion_opinions))
                             ELSE None,
                             _generate_remediation(dimension.id, dimension.name, final_score,
                                                   criterion_opinions))

Constructs(cr) ==
    CriterionResult_accepts(cr.dimension_id, cr.dimension_name, cr.final_score,
                            cr.judge_opinions, cr.dissent_summary, cr.remediation)

\* Fault: a loop whose final_score is not reset between dimensions, so that
\* a dimension's score is bounded by the score of the dimension before it.
RECURSIVE SynthesisLoopRemembering(_, _, _, _)
SynthesisLoopRemembering(dimensions, ops, synthesis_rules, acc) ==
    IF dimensions = << >> THEN [criterion_results |-> acc, raised |-> None]
    ELSE LET fresh == CriterionArgs(Head(dimensions), ops, synthesis_rules)
             cr == IF acc = << >> THEN fresh
                   ELSE [fresh EXCEPT !.final_score = Min({ @, acc[Len(acc)].final_score })]
         IN  IF Constructs(cr)
             THEN SynthesisLoopRemembering(Tail(dimensions), ops, synthesis_rules, Append(acc, cr))
             ELSE [criterion_results |-> acc, raised |-> Some("ValidationError")]

\* The loop over rubric_dimensions (lines 40-113): the results appended so far
\* and the exception that left the loop, if one did.
RECURSIVE SynthesisLoop(_, _, _, _)
SynthesisLoop(dimensions, ops, synthesis_rules, acc) ==
    IF dimensions = << >> THEN [criterion_results |-> acc, raised |-> None]
    ELSE LET cr == CriterionArgs(Head(dimensions), ops, synthesis_rules)
         IN  IF Constructs(cr)
             THEN SynthesisLoop(Tail(dimensions), ops, synthesis_rules, Append(acc, cr))
             ELSE [criterion_results |-> acc, raised |-> Some("ValidationError")]

\* Fault: the mean taken by integer division.
OverallScoreFloored(total_score, dimensions) ==
    IF dimensions # << >> THEN Frac(total_score \div Len(dimensions), 1) ELSE Frac(1, 1)

\* overall_score = total_score / len(rubric_dimensions) if rubric_dimensions else 1.0
OverallScore(total_score, dimensions) ==
    IF dimensions # << >> THEN Frac(total_score, Len(dimensions)) ELSE Frac(1, 1)

\* chief_justice_node on a state: what it built and how it ended.
\*   criterion_results  the local list when the node ended
\*   report             the AuditReport of line 129, if it was constructed
\*   raised             the exception that left the node, if one did
\*   update             the returned dict {"final_report": ...}, if it returned
chief_justice_node(state) ==
    LET loop == SynthesisLoop(state.rubric_dimensions, state.opinions, state.synthesis_rules, << >>)
        results == loop.criterion_results
        overall_score == OverallScore(SumSeq(FinalScores(results)), state.rubric_dimensions)
        executive_summary == _generate_executive_summary(overall_score, results,
                                 state.repo_url, state.git_commit_hash, state.model_metadata)
        remediation_plan == _generate_comprehensive_remediation_plan(results)
        built == AuditReport(state.repo_url, executive_summary, overall_score, results,
                             remediation_plan)
    IN  IF ~IsNone(loop.raised)
        THEN [criterion_results |-> results, report |-> None,
              raised |-> loop.raised, update |-> None]
        ELSE IF ~AuditReport_accepts(state.repo_url, executive_summary, overall_score,
                                     results, remediation_plan)
        THEN [criterion_results |-> results, report |-> None,
              raised |-> Some("ValidationError"), update |-> None]
        ELSE IF ~AuditReport_has_to_markdown
        THEN [criterion_results |-> results, report |-> Some(built),
              raised |-> Some("AttributeError"), update |-> None]
        ELSE [criterion_results |-> results, report |-> Some(built), raised |-> None,
              update |-> Some([final_report |-> [type |-> "str", len |-> 1, of |-> built]])]

-----------------------------------------------------------------------------
(* Evidence (src/state.py) and the exceptions its validators and the       *)
(* forensic tools raise.  An exception is a record of what the handlers of *)
(* src/nodes/detectives.py print of it: type is type(e).__name__ and       *)
(* type_len its length, message_len is len(str(e)), and names_method and   *)
(* says_method tell whether one of the method_keywords of                  *)
(* validate_rationale occurs (case-insensitively) in the name and in the   *)
(* message.                                                                *)

Exception(type, type_len, names_method, message_len, says_method) ==
    [type |-> type, type_len |-> type_len, names_method |-> names_method,
     message_len |-> message_len, says_method |-> says_method]

\* KeyError('file')
KeyError == Exception("KeyError", 8, FALSE, 6, FALSE)
\* GitOperationError("git log", "Unknown error")
GitOperationError == Exception("GitOperationError", 17, TRUE, 45, TRUE)
\* RepositoryCloneError(repo_url, "Authentication failed. Check credentials or repository access.")
RepositoryCloneError == Exception("RepositoryCloneError", 20, FALSE, 122, TRUE)
\* NameError("name 'pdf_path' is not defined")
NameError == Exception("NameError", 9, FALSE, 30, FALSE)
\* OSError(28, "No space left on device")
OSError == Exception("OSError", 7, FALSE, 34, FALSE)

\* EvidenceValidationError(field, reason), by the check of the validators that
\* raises it.  Of the reasons, the one of validate_rationale quotes 'AST
\* confirmed' and the one on short detail says "at least".
EvidenceValidationError(check) ==
    CASE check = "rationale" -> Exception("EvidenceValidationError", 23, FALSE, 126, TRUE)
      [] check = "detail" -> Exception("EvidenceValidationError", 23, FALSE, 150, TRUE)
      [] check = "found" -> Exception("EvidenceValidationError", 23, FALSE, 111, FALSE)
      [] check = "not_found" -> Exception("EvidenceValidationError", 23, FALSE, 116, FALSE)
      [] check = "content" -> Exception("EvidenceValidationError", 23, FALSE, 123, FALSE)

\* pydantic's ValidationError for a Field constraint ("String should have at
\* least 20 characters ...").
FieldConstraintError == Exception("ValidationError", 15, FALSE, 200, TRUE)

\* A rationale text: its length and whether it contains a method keyword.
Rationale(len, method) == [len |-> len, method |-> method]

\* A content text: its length and, where it is the JSON of a dict with the key
\* claimed_paths, the list under that key.
Content(len, claimed_paths) == [len |-> len, claimed_paths |-> claimed_paths]

\* Confidences are kept in hundredths.
Confidence(hundredths) == Frac(hundredths, 100)

\* The arguments of Evidence(...), and the object once it is constructed.
Evidence(criterion_id, goal_len, found, content, location, rationale, confidence) ==
    [criterion_id |-> criterion_id, goal |-> [len |-> goal_len], found |-> found,
     content |-> content, location |-> location, rationale |-> rationale,
     confidence |-> confidence]

\* The Field constraints of Evidence (criterion ids and locations of the model
\* are non-empty and short).
EvidenceFieldsValid(ev) ==
    /\ ev.goal.len >= 10 /\ ev.goal.len <= 500
    /\ (~IsNone(ev.content) => The(ev.content).len <= 10000)
    /\ ev.rationale.len >= 20 /\ ev.rationale.len <= 2000
    /\ ~FracLess(ev.confidence, Confidence(0)) /\ ~FracLess(Confidence(100), ev.confidence)

\* not self.content
NoContent(ev) == IsNone(ev.content) \/ The(ev.content).len = 0

\* Evidence validators without the two checks of found against confidence.
EvidenceBoundsUnchecked(ev) ==
    IF ev.rationale.len >= 20 /\ ev.rationale.len <= 2000 /\ ~ev.rationale.method
    THEN Some(EvidenceValidationError("rationale"))
    ELSE IF ~EvidenceFieldsValid(ev) THEN Some(FieldConstraintError)
    ELSE IF FracLess(Confidence(70), ev.confidence) /\ ev.rationale.len < 50
    THEN Some(EvidenceValidationError("detail"))
    ELSE IF ev.found /\ NoContent(ev) /\ FracLess(Confidence(60), ev.confidence)
    THEN Some(EvidenceValidationError("content"))
    ELSE None

\* What constructing Evidence(...) raises: None when the object is constructed.
\* validate_rationale runs when the rationale passed its Field constraints and
\* its exception leaves the constructor at once; the Field errors are raised
\* after all fields; validate_confidence_rationale runs on valid fields only.
Evidence_raises(ev) ==
    IF ev.rationale.len >= 20 /\ ev.rationale.len <= 2000 /\ ~ev.rationale.method
    THEN Some(EvidenceValidationError("rationale"))
    ELSE IF ~EvidenceFieldsValid(ev) THEN Some(FieldConstraintError)
    ELSE IF FracLess(Confidence(70), ev.confidence) /\ ev.rationale.len < 50
    THEN Some(EvidenceValidationError("detail"))
    ELSE IF ev.found /\ FracLess(ev.confidence, Confidence(30))
    THEN Some(EvidenceValidationError("found"))
    ELSE IF ~ev.found /\ FracLess(Confidence(50), ev.confidence)
    THEN Some(EvidenceValidationError("not_found"))
    ELSE IF ev.found /\ NoContent(ev) /\ FracLess(Confidence(60), ev.confidence)
    THEN Some(EvidenceValidationError("content"))
    ELSE None

-----------------------------------------------------------------------------
(* The detectives (src/nodes/detectives.py).  What a forensic tool answers *)
(* is an input of the model: a protocol either raises, or yields the       *)
(* arguments of the Evidence objects the node then constructs.  A node     *)
(* returns an update or raises: [update, raised], one of them None.        *)

REPO_URL == "https://github.com/owner/repo"

\* A protocol's answer: the exception it raises, or else the findings whose
\* Evidence the node constructs, in order.
Protocol(raises, findings) == [raises |-> raises, findings |-> findings]

\* A finding: the arguments of one Evidence(...) but for the criterion_id.
Finding(goal_len, found, content, location, rationale, confidence) ==
    [goal_len |-> goal_len, found |-> found, content |-> content, location |-> location,
     rationale |-> rationale, confidence |-> confidence]

\* A finding whose rationale names its method, as "AST analysis found 0
\* security anti-patterns (no os.system, eval, or exec calls in src/)." with
\* confidence 0.95 does, here located at a line of graph.py
FINDING_VERIFIED ==
    Finding(63, TRUE, Some(Content(120, None)), "src/graph.py:42", Rationale(88, TRUE),
            Confidence(95))
\* "StateGraph detected." with confidence 0.7
FINDING_UNEXPLAINED ==
    Finding(40, TRUE, Some(Content(120, None)), "src/graph.py:42", Rationale(20, FALSE),
            Confidence(70))
\* "Could not locate graph.py file. May be in non-standard location. LLM
\*  suggestion: I checked the tree ..." with confidence 0.2
FINDING_NOT_LOCATED ==
    Finding(40, FALSE, Some(Content(150, None)), "not_found", Rationale(120, TRUE),
            Confidence(20))

EvidenceOf(criterion_id, f) ==
    Evidence(criterion_id, f.goal_len, f.found, f.content, f.location, f.rationale, f.confidence)

\* evidence_list.append(Evidence(...)) for each finding in turn, up to the first
\* construction that raises.
RECURSIVE AppendFindings(_, _, _)
AppendFindings(evidence_list, criterion_id, findings) ==
    IF findings = << >> THEN [evidence_list |-> evidence_list, raised |-> None]
    ELSE LET ev == EvidenceOf(criterion_id, Head(findings))
         IN  IF ~IsNone(Evidence_raises(ev))
             THEN [evidence_list |-> evidence_list, raised |-> Evidence_raises(ev)]
             ELSE AppendFindings(Append(evidence_list, ev), criterion_id, Tail(findings))

\* The body of a dimension's try block.
RunProtocol(evidence_list, criterion_id, protocol) ==
    IF ~IsNone(protocol.raises)
    THEN [evidence_list |-> evidence_list, raised |-> protocol.raises]
    ELSE AppendFindings(evidence_list, criterion_id, protocol.findings)

\* except Exception as e (lines 518-529): f"Protocol failed: {type(e).__name__}: {e}"
RepoProtocolFailed(dim_id, e) ==
    Evidence(dim_id, 22 + 22, FALSE, Some(Content(7 + e.message_len, None)), REPO_URL,
             Rationale(17 + e.type_len + 2 + e.message_len, e.names_method \/ e.says_method),
             Confidence(0))

\* The loop over the rubric dimensions (lines 105-529).  checks[i] is the answer
\* of the protocol of dimensions[i].
RECURSIVE RepoProtocols(_, _, _)
RepoProtocols(dimensions, checks, evidence_list) ==
    IF dimensions = << >> THEN [evidence_list |-> evidence_list, raised |-> None]
    ELSE IF Head(dimensions).target_artifact # "github_repo"
    THEN RepoProtocols(Tail(dimensions), Tail(checks), evidence_list)
    ELSE LET dim_id == Head(dimensions).id
             tried == RunProtocol(evidence_list, dim_id, Head(checks))
             failure == RepoProtocolFailed(dim_id, The(tried.raised))
         IN  IF IsNone(tried.raised)
             THEN RepoProtocols(Tail(dimensions), Tail(checks), tried.evidence_list)
             ELSE IF ~IsNone(Evidence_raises(failure))
             THEN [evidence_list |-> tried.evidence_list, raised |-> Evidence_raises(failure)]
             ELSE RepoProtocols(Tail(dimensions), Tail(checks),
                                Append(tried.evidence_list, failure))

\* check_general_repo_health and check_general_code_quality (lines 531-559):
\* the tool's list is appended whole, or its failure recorded as one Evidence
\* whose rationale is prefix + type(e).__name__.
GeneralCheck(evidence_list, criterion_id, protocol, goal_len, prefix_len) ==
    LET tried == RunProtocol(<< >>, criterion_id, protocol)
        e == The(tried.raised)
        failure == Evidence(criterion_id, goal_len, FALSE, Some(Content(22 + e.message_len, None)),
                            "/tmp/auditor_repo_x/repo",
                            Rationale(prefix_len + e.type_len, e.names_method), Confidence(0))
    IN  IF IsNone(tried.raised)
        THEN [evidence_list |-> evidence_list \o tried.evidence_list, raised |-> None]
        ELSE IF ~IsNone(Evidence_raises(failure))
        THEN [evidence_list |-> evidence_list, raised |-> Evidence_raises(failure)]
        ELSE [evidence_list |-> Append(evidence_list, failure), raised |-> None]

\* The outer handler (lines 570-586): f"Could not clone repository: {type(e).__name__}"
CloneFailed(e) ==
    LET failure == Evidence("git_forensic_analysis", 28, FALSE,
                            Some(Content(14 + e.message_len, None)), REPO_URL,
                            Rationale(28 + e.type_len, e.names_method), Confidence(0))
    IN  IF ~IsNone(Evidence_raises(failure))
        THEN [update |-> None, raised |-> Evidence_raises(failure)]
        ELSE [update |-> Some([evidences |-> ("repo" :> << failure >>),
                               git_commit_hash |-> [len |-> 0]]),
              raised |-> None]

\* repo_investigator_node.  clone is None when safe_clone returns and the
\* exception it raises otherwise; checks, health and quality are the answers of
\* the protocols.
repo_investigator_node(dimensions, clone, checks, health, quality) ==
    LET protocols == RepoProtocols(dimensions, checks, << >>)
        with_health == GeneralCheck(protocols.evidence_list, "general_repo_health", health,
                                    32, 37)
        with_quality == GeneralCheck(with_health.evidence_list, "code_quality", quality,
                                     29, 35)
    IN  IF ~IsNone(clone) THEN CloneFailed(The(clone))
        ELSE IF ~IsNone(protocols.raised) THEN CloneFailed(The(protocols.raised))
        ELSE IF ~IsNone(with_health.raised) THEN CloneFailed(The(with_health.raised))
        ELSE IF ~IsNone(with_quality.raised) THEN CloneFailed(The(with_quality.raised))
        ELSE [update |-> Some([evidences |-> ("repo" :> with_quality.evidence_list),
                               git_commit_hash |-> [len |-> 40]]),
              raised |-> None]

REPORT_PATH == "reports/interim_report.pdf"

\* The outer handler of doc_analyst_node (lines 808-826):
\* f"PDF analysis failed: {type(e).__name__}"
PdfAnalysisFailed(e) ==
    LET failure == Evidence("theoretical_depth", 18, FALSE,
                            Some(Content(7 + e.message_len, None)), REPORT_PATH,
                            Rationale(21 + e.type_len, e.names_method), Confidence(0))
    IN  IF ~IsNone(Evidence_raises(failure))
        THEN [update |-> None, raised |-> Evidence_raises(failure)]
        ELSE [update |-> Some([evidences |-> ("doc" :> << failure >>)]), raised |-> None]

\* The Evidence of a report that ingest_report could not read (lines 640-651):
\* rationale "Could not parse report for analysis"
IngestFailed ==
    Evidence("theoretical_depth", 17, FALSE, Some(Content(32, None)), REPORT_PATH,
             Rationale(35, FALSE), Confidence(0))

\* except Exception as e (lines 795-806): f"Protocol failed: {type(e).__name__}"
DocProtocolFailed(dim_id, e) ==
    Evidence(dim_id, 22 + 17, FALSE, Some(Content(7 + e.message_len, None)), REPORT_PATH,
             Rationale(17 + e.type_len, e.names_method), Confidence(0))

\* The loop over the rubric dimensions (lines 657-806).
RECURSIVE DocProtocols(_, _, _)
DocProtocols(dimensions, checks, evidence_list) ==
    IF dimensions = << >> THEN [evidence_list |-> evidence_list, raised |-> None]
    ELSE IF Head(dimensions).target_artifact # "pdf_report"
    THEN DocProtocols(Tail(dimensions), Tail(checks), evidence_list)
    ELSE LET dim_id == Head(dimensions).id
             tried == RunProtocol(evidence_list, dim_id, Head(checks))
             failure == DocProtocolFailed(dim_id, The(tried.raised))
         IN  IF IsNone(tried.raised)
             THEN DocProtocols(Tail(dimensions), Tail(checks), tried.evidence_list)
             ELSE IF ~IsNone(Evidence_raises(failure))
             THEN [evidence_list |-> tried.evidence_list, raised |-> Evidence_raises(failure)]
             ELSE DocProtocols(Tail(dimensions), Tail(checks),
                               Append(tried.evidence_list, failure))

\* doc_analyst_node.  ingest is what ingest_report does: it raises, or returns
\* doc_data with or without success.
doc_analyst_node(dimensions, ingest, checks) ==
    LET protocols == DocProtocols(dimensions, checks, << >>)
    IN  IF ~IsNone(ingest.raises) THEN PdfAnalysisFailed(The(ingest.raises))
        ELSE IF ~ingest.success
        THEN (IF ~IsNone(Evidence_raises(IngestFailed))
              THEN PdfAnalysisFailed(The(Evidence_raises(IngestFailed)))
              ELSE [update |-> Some([evidences |-> ("doc" :> << IngestFailed >>)]),
                    raised |-> None])
        ELSE IF ~IsNone(protocols.raised) THEN PdfAnalysisFailed(The(protocols.raised))
        ELSE [update |-> Some([evidences |-> ("doc" :> protocols.evidence_list)]),
              raised |-> None]

\* The loop of vision_inspector_node (lines 863-959): one Evidence per
\* "pdf_images" dimension, constructed outside any inner try block.
RECURSIVE VisionProtocols(_, _, _)
VisionProtocols(dimensions, checks, evidence_list) ==
    IF dimensions = << >> THEN [evidence_list |-> evidence_list, raised |-> None]
    ELSE IF Head(dimensions).target_artifact # "pdf_images"
    THEN VisionProtocols(Tail(dimensions), Tail(checks), evidence_list)
    ELSE LET tried == RunProtocol(evidence_list, Head(dimensions).id, Head(checks))
         IN  IF IsNone(tried.raised)
             THEN VisionProtocols(Tail(dimensions), Tail(checks), tried.evidence_list)
             ELSE tried

\* vision_inspector_node.  extract is None when extract_diagrams_from_report
\* returns and the exception it raises otherwise.  The Evidence(...) calls of
\* lines 964-971 and 977-985 take location=str(pdf_path), a name the function
\* never binds: evaluating the arguments raises NameError, in the try block
\* and again in its handler.
vision_inspector_node(dimensions, extract, checks) ==
    LET protocols == VisionProtocols(dimensions, checks, << >>)
    IN  IF ~IsNone(extract) THEN [update |-> None, raised |-> Some(NameError)]
        ELSE IF ~IsNone(protocols.raised) THEN [update |-> None, raised |-> Some(NameError)]
        ELSE IF protocols.evidence_list = << >>
        THEN [update |-> None, raised |-> Some(NameError)]
        ELSE [update |-> Some([evidences |-> ("vision" :> protocols.evidence_list)]),
              raised |-> None]

\* File paths a report claims, Path(claimed_path).name of each, and the
\* location the aggregator gives its finding.
ClaimedPaths == { "src/graph.py", "src/ghost.py" }
PathName(claimed_path) ==
    CASE claimed_path = "src/graph.py" -> "graph.py"
      [] claimed_path = "src/ghost.py" -> "ghost.py"
CrossRefLocation(claimed_path) ==
    CASE claimed_path = "src/graph.py" -> "cross_ref:src/graph.py"
      [] claimed_path = "src/ghost.py" -> "cross_ref:src/ghost.py"

\* Step 1 of evidence_aggregator_node on one location: the filename it adds to
\* actual_filenames, if any (lines 1018-1027).
\*   "src/graph.py:42" -> "graph.py"; "not_found", the repository's URL and a
\*   directory name add nothing
LocationFilename(location) ==
    IF location = "src/graph.py:42" THEN Some("graph.py") ELSE None

\* Steps 3 and 4 (lines 1059-1093): the finding on each claimed path whose
\* filename is unknown, in order: found=False, the rationale f"Filename
\* '{claimed_filename}' not found in repo. Verified against {n} known files."
RECURSIVE Hallucinations(_, _, _)
Hallucinations(claimed_paths, actual_filenames, verification_confidence) ==
    IF claimed_paths = << >> THEN << >>
    ELSE LET claimed_path == Head(claimed_paths)
             rest == Hallucinations(Tail(claimed_paths), actual_filenames,
                                    verification_confidence)
         IN  IF PathName(claimed_path) \in actual_filenames THEN rest
             ELSE << Finding(43 + 12, FALSE, Some(Content(12, None)),
                             CrossRefLocation(claimed_path), Rationale(67 + 8, TRUE),
                             verification_confidence) >> \o rest

\* json.loads(doc_ev.content).get("claimed_paths", []) of the report_accuracy
\* Evidence of the doc detective, concatenated in order.
RECURSIVE ClaimedBy(_)
ClaimedBy(doc_evidence) ==
    IF doc_evidence = << >> THEN << >>
    ELSE LET doc_ev == Head(doc_evidence)
         IN  (IF /\ doc_ev.criterion_id = "report_accuracy"
                 /\ ~NoContent(doc_ev)
                 /\ ~IsNone(The(doc_ev.content).claimed_paths)
              THEN The(The(doc_ev.content).claimed_paths) ELSE << >>)
             \o ClaimedBy(Tail(doc_evidence))

\* evidence_aggregator_node.  scan is None when no location names the clone's
\* directory or the directory is gone, and otherwise the set of file names the
\* walk of the directory finds.  No Evidence construction is inside a try block.
evidence_aggregator_node(evs, scan) ==
    LET doc_evidence == IF "doc" \in DOMAIN evs THEN evs["doc"] ELSE << >>
        repo_evidence == IF "repo" \in DOMAIN evs THEN evs["repo"] ELSE << >>
        from_locations == { The(LocationFilename(repo_evidence[i].location)) :
                              i \in { j \in 1..Len(repo_evidence) :
                                        ~IsNone(LocationFilename(repo_evidence[j].location)) } }
        actual_filenames == from_locations \cup (IF IsNone(scan) THEN {} ELSE The(scan))
        verification_confidence == IF IsNone(scan) THEN Confidence(60) ELSE Confidence(85)
        built == AppendFindings(<< >>, "report_accuracy",
                     Hallucinations(ClaimedBy(doc_evidence), actual_filenames,
                                    verification_confidence))
        summary == Evidence("report_accuracy", 23, TRUE, Some(Content(90, None)),
                            "cross_ref:summary", Rationale(110, TRUE),
                            IF IsNone(scan) THEN Confidence(70) ELSE Confidence(90))
    IN  IF ~IsNone(built.raised) THEN [update |-> None, raised |-> built.raised]
        ELSE IF built.evidence_list = << >>
        THEN [update |-> Some([evidences |-> ("cross_ref" :> << >>)]), raised |-> None]
        ELSE IF ~IsNone(Evidence_raises(summary))
        THEN [update |-> None, raised |-> Evidence_raises(summary)]
        ELSE [update |-> Some([evidences |-> ("cross_ref" :> Append(built.evidence_list, summary))]),
              raised |-> None]

-----------------------------------------------------------------------------
(* The answers of the forensic tools that the model draws from.            *)

\* "Found 2 diagram/image artifacts in report. Gemini classification: architecture
\*  diagram. The flow was verified against the text." with confidence 0.82
FINDING_DIAGRAM ==
    Finding(76, TRUE, Some(Content(200, None)), REPORT_PATH, Rationale(129, TRUE),
            Confidence(82))
\* "Found 0 diagram/image artifacts in report. Multimodal classification attempted."
FINDING_NO_DIAGRAM ==
    Finding(76, FALSE, Some(Content(48, None)), REPORT_PATH, Rationale(79, FALSE),
            Confidence(10))
\* What check_general_repo_health and check_general_code_quality return.
FINDING_GENERAL ==
    Finding(40, TRUE, Some(Content(300, None)), "/tmp/auditor_repo_x/repo",
            Rationale(90, TRUE), Confidence(80))

RepoChecks ==
    { Protocol(None, << FINDING_VERIFIED >>), Protocol(Some(GitOperationError), << >>),
      Protocol(Some(KeyError), << >>) }
GeneralChecks == { Protocol(None, << FINDING_GENERAL >>), Protocol(Some(OSError), << >>) }
VisionChecks == { Protocol(None, << FINDING_DIAGRAM >>), Protocol(None, << FINDING_NO_DIAGRAM >>) }
Ingests ==
    { [raises |-> None, success |-> TRUE], [raises |-> None, success |-> FALSE],
      [raises |-> Some(OSError), success |-> FALSE] }
Scans == { None, Some({ "graph.py", "state.py" }) }

\* One answer per rubric dimension: those of the dimensions with the given
\* target_artifact are drawn from answers, the others are not asked for.
NotAsked == Protocol(None, << >>)
ChecksFor(dimensions, artifact, answers) ==
    { checks \in [1..Len(dimensions) -> answers \cup { NotAsked }] :
        \A i \in 1..Len(dimensions) :
            IF dimensions[i].target_artifact = artifact
            THEN checks[i] \in answers ELSE checks[i] = NotAsked }

-----------------------------------------------------------------------------
(* Direct calls: a client constructs a model of src/state.py or calls a    *)
(* function of src/nodes/justice.py.  call is the call with its arguments, *)
(* drawn from bounded sets; result is None until the call has been made,   *)
(* then what it returned or raised.                                        *)

OptionalScores == { None } \cup { Some(s) : s \in Scores }

\* An opinion as a judge node renders it; one that names a violation cites the file.
Opinion(judge, criterion_id, score, argument) ==
    JudicialOpinion(judge, criterion_id, score, argument,
                    IF argument.violation # "none" THEN << "src/graph.py:42" >> ELSE << >>)

\* One opinion per present persona.
OpinionsFor(criterion_id, p, d, t, prosecutor_argument) ==
    (IF IsNone(p) THEN << >>
     ELSE << Opinion("Prosecutor", criterion_id, The(p), prosecutor_argument) >>)
    \o (IF IsNone(d) THEN << >>
        ELSE << Opinion("Defense", criterion_id, The(d), ARG_PLAIN) >>)
    \o (IF IsNone(t) THEN << >>
        ELSE << Opinion("TechLead", criterion_id, The(t), ARG_PLAIN) >>)

Returned(v) == Some([value |-> Some(v), raised |-> None])
Raised(e) == Some([value |-> None, raised |-> Some(e)])

RestUnchanged ==
    /\ UNCHANGED << rubric_dimensions, opinions, report, criterion_results, raised, call >>
    /\ UNCHANGED graph_vars

JudicialOpinionCalls ==
    { [op |-> "JudicialOpinion", judge |-> judge, score |-> score, argument |-> argument] :
        judge \in Judges \cup { "Judge" }, score \in (MinScore - 1)..(MaxScore + 1),
        argument \in AnyArguments }

\* JudicialOpinion(judge=..., criterion_id="test_criterion", score=..., argument=...)
NewJudicialOpinion ==
    /\ call.op = "JudicialOpinion"
    /\ result = None
    /\ result' = IF JudicialOpinion_accepts(call.judge, "test_criterion", call.score,
                                            call.argument, << >>)
                 THEN Returned(JudicialOpinion(call.judge, "test_criterion", call.score,
                                               call.argument, << >>))
                 ELSE Raised("ValidationError")
    /\ RestUnchanged

SynthesizeScoreCalls ==
    { [op |-> "_synthesize_score", prosecutor_score |-> p, defense_score |-> d,
       tech_lead_score |-> t, opinions |-> OpinionsFor(dimension_id, p, d, t, argument),
       dimension_id |-> dimension_id] :
        p \in OptionalScores, d \in OptionalScores, t \in OptionalScores,
        argument \in ValidArguments, dimension_id \in DimensionIds }

\* _synthesize_score(prosecutor_score, defense_score, tech_lead_score, opinions, {}, dimension_id)
CallSynthesizeScore ==
    /\ call.op = "_synthesize_score"
    /\ result = None
    /\ result' = Returned(_synthesize_score(call.prosecutor_score, call.defense_score,
                              call.tech_lead_score, call.opinions, "synthesis_rules",
                              call.dimension_id))
    /\ RestUnchanged

\* The opinion lists handed to the CriterionResult constructor: every panel of
\* three judges, and the lists with a judge missing, doubled or added.
Panels(criterion_id) ==
    { OpinionsFor(criterion_id, Some(p), Some(d), Some(t), ARG_PLAIN) :
        p \in Scores, d \in Scores, t \in Scores }

MalformedPanels(criterion_id) ==
    LET P == Opinion("Prosecutor", criterion_id, 3, ARG_PLAIN)
        D == Opinion("Defense", criterion_id, 4, ARG_PLAIN)
        T == Opinion("TechLead", criterion_id, 3, ARG_PLAIN)
        X == Opinion("TechLead", "test_criterion", 3, ARG_PLAIN)
    IN  { << >>, << P >>, << P, D >>, << P, D, P >>, << P, D, T, T >>, << P, D, X >> }

\* dissent_summary arguments: None, "", a 20-character and a 60-character text
DissentArguments ==
    { None, Some([text |-> "given", len |-> 0]), Some([text |-> "given", len |-> 20]),
      Some([text |-> "given", len |-> 60]) }

\* remediation arguments: "Update src/state.py" (19 characters), a 60-character
\* instruction naming a file, and a 60-character instruction naming none
RemediationArguments ==
    { [text |-> "given", len |-> 19, file_path |-> TRUE, action |-> TRUE],
      [text |-> "given", len |-> 60, file_path |-> TRUE, action |-> TRUE],
      [text |-> "given", len |-> 60, file_path |-> FALSE, action |-> TRUE] }

CriterionResultCalls ==
    { [op |-> "CriterionResult", dimension |-> DimensionPool[2], final_score |-> final_score,
       judge_opinions |-> judge_opinions, dissent_summary |-> dissent_summary,
       remediation |-> remediation] :
        final_score \in Scores, dissent_summary \in DissentArguments,
        remediation \in RemediationArguments,
        judge_opinions \in Panels(DimensionPool[2].id) \cup MalformedPanels(DimensionPool[2].id) }

\* CriterionResult(dimension_id=..., final_score=..., judge_opinions=..., ...)
NewCriterionResult ==
    /\ call.op = "CriterionResult"
    /\ result = None
    /\ result' = IF CriterionResult_accepts(call.dimension.id, call.dimension.name,
                        call.final_score, call.judge_opinions, call.dissent_summary,
                        call.remediation)
                 THEN Returned(CriterionResult(call.dimension.id, call.dimension.name,
                                   call.final_score, call.judge_opinions, call.dissent_summary,
                                   call.remediation))
                 ELSE Raised("ValidationError")
    /\ RestUnchanged

\* repo_url values: "https://github.com/owner/repo" and "git@github.com:owner/repo.git"
HTTPS_URL == [len |-> 29, http |-> TRUE]
SSH_URL == [len |-> 29, http |-> FALSE]

\* A CriterionResult that passes construction, with the given final score.
SampleResult(dimension, s) ==
    CriterionResult(dimension.id, dimension.name, s,
                    OpinionsFor(dimension.id, Some(s), Some(s), Some(s), ARG_PLAIN), None,
                    [text |-> "given", len |-> 60, file_path |-> TRUE, action |-> TRUE])

CriteriaArguments ==
    UNION { { [i \in 1..n |-> SampleResult(DimensionPool[((i - 1) % Len(DimensionPool)) + 1], f[i])] :
                f \in [1..n -> Scores] } : n \in 0..MaxCriteria }

\* executive_summary arguments: a text that passes its validator and a
\* 40-character one; the remediation_plan argument passes its validator
SummaryArguments ==
    { [text |-> "given", len |-> 300, has_score |-> TRUE, has_findings |-> TRUE],
      [text |-> "given", len |-> 40, has_score |-> TRUE, has_findings |-> TRUE] }

PlanArgument == [text |-> "given", len |-> 300, has_priority |-> TRUE, has_actions |-> TRUE]

\* overall_score arguments: 0.5, 1.0, 1.5, ..., 5.5
OverallArguments == { Frac(k, 2) : k \in 1..11 }

AuditReportCalls ==
    { [op |-> "AuditReport", repo_url |-> repo_url, executive_summary |-> executive_summary,
       overall_score |-> overall_score, criteria |-> criteria,
       remediation_plan |-> PlanArgument] :
        repo_url \in { HTTPS_URL, SSH_URL }, executive_summary \in SummaryArguments,
        overall_score \in OverallArguments, criteria \in CriteriaArguments }

\* AuditReport(repo_url=..., executive_summary=..., overall_score=..., criteria=..., ...)
NewAuditReport ==
    /\ call.op = "AuditReport"
    /\ result = None
    /\ result' = IF AuditReport_accepts(call.repo_url, call.executive_summary,
                        call.overall_score, call.criteria, call.remediation_plan)
                 THEN Returned(AuditReport(call.repo_url, call.executive_summary,
                                   call.overall_score, call.criteria, call.remediation_plan))
                 ELSE Raised("ValidationError")
    /\ RestUnchanged

\* The states chief_justice_node is called on directly.  For each rubric
\* dimension and each judge there is one opinion or none (slots), with a score
\* from CallScores; the opinions are listed judge by judge, as the reducer
\* concatenates the judges' returns; extra, if given, is a further Prosecutor
\* opinion for the first dimension, appended at the end (a duplicate).
CallScores == { 1, 4 }

SlotOpinions(rubric, slots, judge, prosecutor_argument) ==
    LET present == SelectSeq([i \in 1..Len(rubric) |-> i], LAMBDA i : ~IsNone(slots[i][judge]))
    IN  [k \in 1..Len(present) |->
            Opinion(judge, rubric[present[k]].id, The(slots[present[k]][judge]),
                    IF judge = "Prosecutor" THEN prosecutor_argument ELSE ARG_PLAIN)]

CallOpinions(rubric, slots, prosecutor_argument, extra) ==
    SlotOpinions(rubric, slots, "Prosecutor", prosecutor_argument)
    \o SlotOpinions(rubric, slots, "Defense", prosecutor_argument)
    \o SlotOpinions(rubric, slots, "TechLead", prosecutor_argument)
    \o (IF IsNone(extra) THEN << >>
        ELSE << Opinion("Prosecutor", rubric[1].id, The(extra), ARG_PLAIN) >>)

AgentState(rubric, ops, repo_url, git_commit_hash) ==
    [rubric_dimensions |-> rubric, opinions |-> ops, synthesis_rules |-> "synthesis_rules",
     repo_url |-> repo_url, git_commit_hash |-> git_commit_hash, model_metadata |-> TRUE]

\* The variants of a call: the Prosecutor argues plainly, or names a security
\* violation, or has a second opinion (score 4) on the first dimension.
CallVariants == { "plain", "violation", "duplicate" }

ChiefJusticeCalls(rubric) ==
    { [op |-> "chief_justice_node", rubric |-> rubric, slots |-> slots, variant |-> variant] :
        slots \in [1..Len(rubric) -> [Judges -> { None } \cup { Some(s) : s \in CallScores }]],
        variant \in CallVariants }

\* The state a call hands to chief_justice_node.
CallState(c) ==
    AgentState(c.rubric,
               CallOpinions(c.rubric, c.slots,
                            IF c.variant = "violation" THEN ARG_VIOLATION ELSE ARG_PLAIN,
                            IF c.variant = "duplicate" THEN Some(4) ELSE None),
               HTTPS_URL, [len |-> 40])

\* chief_justice_node(state): result is [criterion_results, report, raised, update]
CallChiefJustice ==
    /\ call.op = "chief_justice_node"
    /\ result = None
    /\ result' = Some(chief_justice_node(CallState(call)))
    /\ RestUnchanged

\* The graph is not run while the client makes direct calls.
InitIdle ==
    /\ rubric_dimensions = << >>
    /\ evidences = << >>
    /\ opinions = << >>
    /\ final_report = None
    /\ node = << >>
    /\ returned = << >>
    /\ arrival = << >>
    /\ started_after = << >>
    /\ run = "not_started"
    /\ report = None
    /\ criterion_results = << >>
    /\ raised = None

\* Evidence(criterion_id="test_criterion", goal=..., found=..., content=...,
\* location="test", rationale=..., confidence=...).  Goals: "Test goal" and
\* "Verify atomic commit progression"; rationales: "AST confirmed", "AST
\* confirmed detailed analysis", "This is just a description without method" and
\* "AST confirmed git log extraction shows 10 commits with progression".
RationaleArguments ==
    { Rationale(13, TRUE), Rationale(31, TRUE), Rationale(41, FALSE), Rationale(66, TRUE) }
ConfidenceArguments ==
    { Confidence(h) : h \in { 0, 20, 29, 30, 31, 49, 50, 51, 60, 70, 80, 90, 100, 110 } }
EvidenceCalls ==
    { [op |-> "Evidence",
       ev |-> Evidence("test_criterion", goal_len, found, content, "test", rationale, confidence)] :
        goal_len \in { 9, 32 }, found \in BOOLEAN,
        content \in { None, Some(Content(21, None)) },
        rationale \in RationaleArguments, confidence \in ConfidenceArguments }

NewEvidence ==
    /\ call.op = "Evidence"
    /\ result = None
    /\ result' = IF IsNone(Evidence_raises(call.ev))
                 THEN Returned(call.ev) ELSE Raised(The(Evidence_raises(call.ev)))
    /\ RestUnchanged

\* repo_investigator_node(state) on a rubric, with the answers of safe_clone and
\* of the protocols.
RepoInvestigatorCalls(rubric) ==
    { [op |-> "repo_investigator_node", rubric |-> rubric, clone |-> clone, checks |-> checks,
       health |-> health, quality |-> quality] :
        clone \in { None, Some(RepositoryCloneError) },
        checks \in ChecksFor(rubric, "github_repo",
                             RepoChecks \cup { Protocol(None, << FINDING_UNEXPLAINED >>),
                                               Protocol(None, << FINDING_NOT_LOCATED >>) }),
        health \in GeneralChecks, quality \in GeneralChecks }

CallRepoInvestigator ==
    /\ call.op = "repo_investigator_node"
    /\ result = None
    /\ result' = Some(repo_investigator_node(call.rubric, call.clone, call.checks,
                                             call.health, call.quality))
    /\ RestUnchanged

\* The rubrics handed to doc_analyst_node: the two report dimensions in both
\* orders, each alone, and one after a repository dimension.
DocRubrics ==
    { << TheoreticalDepth >>, << ReportAccuracy >>, << TheoreticalDepth, ReportAccuracy >>,
      << ReportAccuracy, TheoreticalDepth >>, << DimensionPool[1], ReportAccuracy >> }

\* "Found 3 keyword occurrences, 2 substantive." with confidence 0.9
FINDING_KEYWORDS ==
    Finding(81, TRUE, Some(Content(400, None)), REPORT_PATH, Rationale(43, FALSE),
            Confidence(90))
\* The same followed by " Semantic analysis: the report was analyzed chunk by chunk."
FINDING_DEPTH ==
    Finding(81, TRUE, Some(Content(400, None)), REPORT_PATH, Rationale(102, TRUE),
            Confidence(90))
\* "Extracted 2 file path claims. Awaiting cross-reference by evidence_aggregator."
FindingClaims(claimed_paths) ==
    Finding(46, claimed_paths # << >>, Some(Content(19 + 16 * Len(claimed_paths), Some(claimed_paths))),
            REPORT_PATH, Rationale(78, TRUE),
            IF claimed_paths # << >> THEN Confidence(90) ELSE Confidence(0))

DocChecks ==
    { Protocol(None, << FINDING_KEYWORDS >>), Protocol(None, << FINDING_DEPTH >>),
      Protocol(None, << FindingClaims(<< "src/graph.py", "src/ghost.py" >>) >>),
      Protocol(Some(KeyError), << >>), Protocol(Some(GitOperationError), << >>) }

DocAnalystCalls(rubric) ==
    { [op |-> "doc_analyst_node", rubric |-> rubric, ingest |-> ingest, checks |-> checks] :
        ingest \in Ingests, checks \in ChecksFor(rubric, "pdf_report", DocChecks) }

CallDocAnalyst ==
    /\ call.op = "doc_analyst_node"
    /\ result = None
    /\ result' = Some(doc_analyst_node(call.rubric, call.ingest, call.checks))
    /\ RestUnchanged

\* The evidences handed to evidence_aggregator_node: the doc list is missing,
\* empty or holds the report_accuracy Evidence of up to MaxClaims claimed paths;
\* the repo list is missing or holds one Evidence.
ClaimLists ==
    UNION { [1..n -> ClaimedPaths] : n \in 0..MaxClaims }
DocLists ==
    { << >> } \cup { << EvidenceOf("report_accuracy", FindingClaims(c)) >> : c \in ClaimLists }
RepoLists ==
    { << EvidenceOf("graph_orchestration", f) >> : f \in { FINDING_VERIFIED, FINDING_NOT_LOCATED } }
EvidencesArguments ==
    { doc @@ repo :
        doc \in { << >> } \cup { "doc" :> d : d \in DocLists },
        repo \in { << >> } \cup { "repo" :> r : r \in RepoLists } }

AggregatorCalls ==
    { [op |-> "evidence_aggregator_node", evidences |-> evs, scan |-> scan] :
        evs \in EvidencesArguments, scan \in Scans \cup { Some({ "graph.py", "ghost.py" }) } }

CallEvidenceAggregator ==
    /\ call.op = "evidence_aggregator_node"
    /\ result = None
    /\ result' = Some(evidence_aggregator_node(call.evidences, call.scan))
    /\ RestUnchanged

\* What the file system does when a report is written: the write succeeds,
\* mkdir of the output directory raises OSError, or writing the file does.
Disks == { "ok", "mkdir_fails", "write_fails" }

\* _persist_report_to_disk: the whole body is inside try / except Exception,
\* whose handler logs and falls through; the function returns None.
\*   written  the text on disk afterwards, if the write succeeded
\*   logged   whether logger.error was called
_persist_report_to_disk(markdown_report, repo_url, git_commit_hash, disk) ==
    [raised |-> None,
     written |-> IF disk = "ok" THEN Some(markdown_report) ELSE None,
     logged |-> disk # "ok"]

PersistCalls ==
    { [op |-> "_persist_report_to_disk", markdown_report |-> [type |-> "str", len |-> len],
       repo_url |-> repo_url, disk |-> disk] :
        len \in { 0, 1200 }, repo_url \in { HTTPS_URL, SSH_URL }, disk \in Disks }

CallPersistReport ==
    /\ call.op = "_persist_report_to_disk"
    /\ result = None
    /\ result' = Some(_persist_report_to_disk(call.markdown_report, call.repo_url,
                                              [len |-> 40], call.disk))
    /\ RestUnchanged

\* _serialize_report_to_markdown(report) reads report.executive_summary,
\* report.criteria and report.remediation_plan: a str has none of them.
_serialize_report_to_markdown(a_report) ==
    IF a_report.type = "AuditReport"
    THEN [value |-> Some([type |-> "str", len |-> a_report.len]), raised |-> None]
    ELSE [value |-> None, raised |-> Some("AttributeError")]

\* run_audit from the return of graph.invoke on (lines 407-415): nothing here
\* is inside a try block.
\*   returned  the final state, if run_audit returned
\*   written   the text in the output file afterwards, if it was written
SaveReport(final_state, disk) ==
    LET report_markdown == _serialize_report_to_markdown(The(final_state.final_report))
    IN  IF IsNone(final_state.final_report) \/ The(final_state.final_report).len = 0
        THEN [returned |-> Some(final_state), raised |-> None, written |-> None]
        ELSE IF disk = "mkdir_fails"
        THEN [returned |-> None, raised |-> Some("OSError"), written |-> None]
        ELSE IF ~IsNone(report_markdown.raised)
        THEN [returned |-> None, raised |-> report_markdown.raised, written |-> None]
        ELSE IF disk = "write_fails"
        THEN [returned |-> None, raised |-> Some("OSError"), written |-> None]
        ELSE [returned |-> Some(final_state), raised |-> None,
              written |-> report_markdown.value]

\* The final states graph.invoke hands back: final_report is None, the
\* Markdown str chief_justice_node returns (line 144), empty or not, or the
\* AuditReport that AgentState declares (state.py:585).
FinalStates ==
    { [final_report |-> fr] :
        fr \in { None } \cup { Some([type |-> type, len |-> len]) :
                                 type \in { "str", "AuditReport" }, len \in { 0, 1200 } } }

SaveReportCalls ==
    { [op |-> "run_audit", final_state |-> final_state, disk |-> disk] :
        final_state \in FinalStates, disk \in Disks }

CallSaveReport ==
    /\ call.op = "run_audit"
    /\ result = None
    /\ result' = Some(SaveReport(call.final_state, call.disk))
    /\ RestUnchanged

-----------------------------------------------------------------------------
(* The judges (src/nodes/judges.py): one node per persona.                 *)

RECURSIVE _collect_dimension_evidence(_, _, _)
_collect_dimension_evidence(evs, keys, dimension_id) ==
    IF keys = << >> THEN << >>
    ELSE SelectSeq(evs[Head(keys)], LAMBDA ev : ev.criterion_id = dimension_id)
         \o _collect_dimension_evidence(evs, Tail(keys), dimension_id)

\* PERSONA_CONFIG[persona]["default_no_evidence_score"]
default_no_evidence_score(persona) ==
    CASE persona = "Prosecutor" -> 1
      [] persona = "Defense" -> 3
      [] persona = "TechLead" -> 1

\* PERSONA_CONFIG[persona]["default_error_score"]
default_error_score(persona) ==
    CASE persona = "Prosecutor" -> 1
      [] persona = "Defense" -> 3
      [] persona = "TechLead" -> 2

\* PERSONA_CONFIG[persona]["no_evidence_argument"].format(dimension_name=...)
\*   "No evidence collected for {dimension_name}. This indicates a fundamental
\*    failure in the forensic process."
\*   "Evidence collection may have failed, but this doesn't necessarily mean
\*    {dimension_name} is absent. Consider the possibility of implementation in progress."
\*   "No evidence available for {dimension_name}. Cannot verify functionality
\*    without evidence."
no_evidence_argument(persona, dimension_name) ==
    CASE persona = "Prosecutor" ->
           ArgText(89 + dimension_name.len, 27 + dimension_name.len,
                   TRUE, FALSE, FALSE, "none", FALSE, FALSE, dimension_name.file_path)
      [] persona = "Defense" ->
           ArgText(138 + dimension_name.len, 82 + dimension_name.len,
                   TRUE, TRUE, FALSE, "none", FALSE, TRUE, dimension_name.file_path)
      [] persona = "TechLead" ->
           ArgText(73 + dimension_name.len, 27 + dimension_name.len,
                   TRUE, FALSE, FALSE, "none", FALSE, FALSE, dimension_name.file_path)

LocationsOf(evidence_list) == [i \in 1..Len(evidence_list) |-> evidence_list[i].location]

\* What _invoke_structured does on one call: it returns the JudicialOpinion
\* the structured LLM built (score; the argument passes validation), or an
\* exception leaves it.  An exception, by what judge_node does with it:
\*   type       the class, which selects the except clause
\*   len        len(str(e))
\*   reference  validate_argument finds a file citation or an evidence
\*              reference in str(e)[:150]
\*   missing    str(e).lower() contains "missing"
\*   quota      "quota" in str(e).lower() or "429" in str(e)
LLMError(type, len, ref, miss, quota) ==
    [type |-> type, len |-> len, reference |-> ref, missing |-> miss, quota |-> quota]

\* json.loads on a fallback answer that is not JSON:
\*   "Expecting value: line 1 column 1 (char 0)"
JSON_DECODE_ERROR == LLMError("JSONDecodeError", 41, FALSE, FALSE, FALSE)
\* The fallback's JudicialOpinion(score=, argument=, cited_evidence=), which
\* gives neither judge nor criterion_id: pydantic's ValidationError,
\*   "2 validation errors for JudicialOpinion\njudge\n  Field required
\*    [type=missing, input_value={'score': 4, 'argument': ...}, input_type=dict]..."
\* whose quoted input ends with the citations the answer gave: with a source
\* path (or the key 'cited_evidence' itself), or with other text.
FIELD_REQUIRED_CITING == LLMError("ValidationError", 282, TRUE, TRUE, FALSE)
FIELD_REQUIRED == LLMError("ValidationError", 282, FALSE, TRUE, FALSE)
\* "Error code: 429 - You exceeded your current quota, please check your plan."
QUOTA_ERROR == LLMError("RateLimitError", 75, FALSE, FALSE, TRUE)
\* "Connection error."
CONNECTION_ERROR == LLMError("APIConnectionError", 17, FALSE, FALSE, FALSE)
\* The structured LLM's answer fails validate_argument:
\*   "Opinion validation failed for 'argument': Must contain file citations
\*    (e.g., 'src/file.py') or evidence references (e.g., 'evidence found at')"
OPINION_INVALID == LLMError("OpinionValidationError", 142, TRUE, FALSE, FALSE)

LLMErrors ==
    { JSON_DECODE_ERROR, FIELD_REQUIRED_CITING, FIELD_REQUIRED, QUOTA_ERROR, CONNECTION_ERROR,
      OPINION_INVALID }

LLMAnswers ==
    { [kind |-> "opinion", score |-> s] : s \in CallScores }
    \cup { [kind |-> "raise", error |-> e] : e \in LLMErrors }

\* except (ValidationError, json.JSONDecodeError) as e:
\*   f"Structured output failed: {str(e)[:150]}. Assessment incomplete."
\* ("failed" is a critical keyword; "incomplete" contains the positive keyword
\* "complete")
structured_output_failed(e) ==
    LET cut == IF e.len < 150 THEN e.len ELSE 150
    IN  ArgText(50 + cut, 27 + cut, e.reference, TRUE, TRUE, "none", FALSE, e.missing,
                e.reference)

\* except Exception as e:
\*   f"API quota exceeded for {dim_name}. Evidence exists but assessment incomplete."
\*   if is_quota else f"Critical error: {error_str[:200]}"
error_argument(e, dimension_name) ==
    LET cut == IF e.len < 200 THEN e.len ELSE 200
    IN  IF e.quota
        THEN ArgText(67 + dimension_name.len, 24 + dimension_name.len, TRUE, TRUE, TRUE, "none",
                     dimension_name.security, FALSE, dimension_name.file_path)
        ELSE ArgText(16 + cut, 16 + cut, e.reference, TRUE, FALSE, "none", FALSE, e.missing,
                     e.reference)

\* The exception JudicialOpinion(...) raises on arguments it rejects: the
\* Field constraints give pydantic's ValidationError, the validators
\* OpinionValidationError.
JudicialOpinion_raises(judge, criterion_id, score, argument, cited_evidence) ==
    IF JudicialOpinion_accepts(judge, criterion_id, score, argument, cited_evidence) THEN None
    ELSE IF argument.len < MinArgumentLen \/ argument.len > MaxArgumentLen
              \/ score < MinScore \/ score > MaxScore \/ Len(cited_evidence) > 20
         THEN Some("ValidationError")
         ELSE Some("OpinionValidationError")

\* The arguments of the one JudicialOpinion(...) judge_node constructs for a
\* dimension: the persona's default when there is no evidence for it; on an
\* exception from _invoke_structured, the error default of the except clause
\* that catches it.  None when the LLM's own opinion is appended.
JudgeConstructs(persona, dimension, dim_evidence, answer) ==
    IF dim_evidence = << >>
    THEN Some([score |-> default_no_evidence_score(persona),
               argument |-> no_evidence_argument(persona, dimension.name),
               cited_evidence |-> << >>])
    ELSE IF answer.kind = "opinion" THEN None
    ELSE IF answer.error.type \in { "ValidationError", "JSONDecodeError" }
    THEN Some([score |-> default_error_score(persona),
               argument |-> structured_output_failed(answer.error),
               cited_evidence |-> << >>])
    ELSE Some([score |-> default_error_score(persona),
               argument |-> error_argument(answer.error, dimension.name),
               cited_evidence |-> LocationsOf(dim_evidence)])

\* judge_node for one persona; answer is what _invoke_structured does on each
\* call of this run.  The default opinions are constructed outside any try
\* block and the error defaults inside the except clauses: an exception from
\* their construction leaves the node.
judge_node(persona, dimensions, evs, keys, answer) ==
    LET dim_evidence(i) == _collect_dimension_evidence(evs, keys, dimensions[i].id)
        made(i) == JudgeConstructs(persona, dimensions[i], dim_evidence(i), answer)
        raises(i) ==
            IF IsNone(made(i)) THEN None
            ELSE JudicialOpinion_raises(persona, dimensions[i].id, The(made(i)).score,
                                        The(made(i)).argument, The(made(i)).cited_evidence)
        opinion(i) ==
            IF IsNone(made(i))
            THEN JudicialOpinion(persona, dimensions[i].id, answer.score, ARG_PLAIN,
                                 LocationsOf(dim_evidence(i)))
            ELSE JudicialOpinion(persona, dimensions[i].id, The(made(i)).score,
                                 The(made(i)).argument, The(made(i)).cited_evidence)
        failing == { i \in 1..Len(dimensions) : ~IsNone(raises(i)) }
    IN  IF failing # {}
        THEN [update |-> None, raised |-> raises(Min(failing))]
        ELSE [update |-> Some([opinions |-> [i \in 1..Len(dimensions) |-> opinion(i)]]),
              raised |-> None]

\* judge_node(state) called directly: a rubric, evidence (under the key "repo")
\* for the dimensions in covered, and the LLM's answer.
JudgeEvidences(rubric, covered) ==
    LET present == SelectSeq(rubric, LAMBDA d : d.id \in covered)
    IN  "repo" :> [i \in 1..Len(present) |-> EvidenceOf(present[i].id, FINDING_VERIFIED)]

JudgeCalls(rubric) ==
    { [op |-> "judge_node", persona |-> persona, rubric |-> rubric, covered |-> covered,
       answer |-> answer] :
        persona \in Judges, covered \in SUBSET { rubric[i].id : i \in 1..Len(rubric) },
        answer \in LLMAnswers }

CallJudgeNode ==
    /\ call.op = "judge_node"
    /\ result = None
    /\ result' = Some(judge_node(call.persona, call.rubric,
                                 JudgeEvidences(call.rubric, call.covered), << "repo" >>,
                                 call.answer))
    /\ RestUnchanged

\* _generate_executive_summary and _generate_comprehensive_remediation_plan
\* called directly, on lists of up to MaxResults constructed CriterionResults
\* of distinct dimensions, every score of the scale.
ReportDimensions == DimensionPool \o << SwarmVisual, TheoreticalDepth, ReportAccuracy >>

ResultsArguments ==
    UNION { { [i \in 1..n |-> SampleResult(ReportDimensions[((i - 1) % Len(ReportDimensions)) + 1], f[i])] :
                f \in [1..n -> Scores] } : n \in 0..MaxResults }

ExecutiveSummaryCalls ==
    { [op |-> "_generate_executive_summary", results |-> results] : results \in ResultsArguments }

CallExecutiveSummary ==
    /\ call.op = "_generate_executive_summary"
    /\ result = None
    /\ result' = Returned(_generate_executive_summary(
                              OverallScore(SumSeq(FinalScores(call.results)), call.results),
                              call.results, HTTPS_URL, [len |-> 40], TRUE))
    /\ RestUnchanged

RemediationPlanCalls ==
    { [op |-> "_generate_comprehensive_remediation_plan", results |-> results] :
        results \in ResultsArguments }

CallRemediationPlan ==
    /\ call.op = "_generate_comprehensive_remediation_plan"
    /\ result = None
    /\ result' = Returned(_generate_comprehensive_remediation_plan(call.results))
    /\ RestUnchanged

InitCalls ==
    /\ InitIdle
    /\ \/ call \in JudicialOpinionCalls
       \/ call \in SynthesizeScoreCalls
       \/ call \in CriterionResultCalls
       \/ call \in AuditReportCalls
       \/ \E rubric \in Rubrics : call \in ChiefJusticeCalls(rubric)
       \/ call \in EvidenceCalls
       \/ \E rubric \in Rubrics : call \in RepoInvestigatorCalls(rubric)
       \/ \E rubric \in DocRubrics : call \in DocAnalystCalls(rubric)
       \/ call \in AggregatorCalls
       \/ call \in PersistCalls
       \/ call \in SaveReportCalls
       \/ \E rubric \in Rubrics : call \in JudgeCalls(rubric)
       \/ call \in ExecutiveSummaryCalls
       \/ call \in RemediationPlanCalls
    /\ result = None

NextCalls ==
    \/ NewJudicialOpinion
    \/ CallSynthesizeScore
    \/ NewCriterionResult
    \/ NewAuditReport
    \/ CallChiefJustice
    \/ NewEvidence
    \/ CallRepoInvestigator
    \/ CallDocAnalyst
    \/ CallEvidenceAggregator
    \/ CallPersistReport
    \/ CallSaveReport
    \/ CallJudgeNode
    \/ CallExecutiveSummary
    \/ CallRemediationPlan

SpecCalls == InitCalls /\ [][NextCalls]_vars

-----------------------------------------------------------------------------
(* The audit graph (src/graph.py): eight nodes over one AgentState.  A     *)
(* node runs once the sources of an edge into it have all completed; its   *)
(* returned update is merged into the state by the reducers of AgentState. *)
(* The nodes of one layer complete, and their updates are merged, in any   *)
(* order.                                                                  *)

Detectives == { "repo_investigator", "doc_analyst", "vision_inspector" }
JudgeNodes == { "prosecutor", "defense", "tech_lead" }
Nodes == Detectives \cup { "evidence_aggregator" } \cup JudgeNodes \cup { "chief_justice" }

\* Fault: a reducer that replaces the dict by the update.
DictReplace(a, b) == b

\* Fault: a reducer that replaces the list by the update.
ListReplace(a, b) == b

\* evidences: Annotated[Dict[str, List[Evidence]], operator.ior]
operator_ior(a, b) ==
    [k \in DOMAIN a \cup DOMAIN b |-> IF k \in DOMAIN b THEN b[k] ELSE a[k]]

\* opinions: Annotated[List[JudicialOpinion], operator.add]
operator_add(a, b) == a \o b

\* The edges of create_auditor_graph, each as << sources, target >>.
Edges ==
    { << { "START" }, "repo_investigator" >>,
      << { "START" }, "doc_analyst" >>,
      << { "START" }, "vision_inspector" >>,
      << Detectives, "evidence_aggregator" >>,
      << { "evidence_aggregator" }, "prosecutor" >>,
      << { "evidence_aggregator" }, "defense" >>,
      << { "evidence_aggregator" }, "tech_lead" >>,
      << JudgeNodes, "chief_justice" >> }

\* Fault: a list edge that triggers its target when any one source has completed.
TriggeredByAny(n, done) == \E e \in Edges : e[2] = n /\ e[1] \cap done # {}

\* add_edge([a, b, c], n): n is triggered when a, b and c have all completed.
Triggered(n, done) == \E e \in Edges : e[2] = n /\ e[1] \subseteq done

\* The nodes that have completed (START counts as completed).
Done == { "START" } \cup { n \in Nodes : node[n] = "done" }

\* The dict's keys in insertion order: the order in which the writers arrived.
KeyOf(n) ==
    CASE n = "repo_investigator" -> "repo"
      [] n = "doc_analyst" -> "doc"
      [] n = "vision_inspector" -> "vision"
      [] n = "evidence_aggregator" -> "cross_ref"

PersonaOf(n) ==
    CASE n = "prosecutor" -> "Prosecutor"
      [] n = "defense" -> "Defense"
      [] n = "tech_lead" -> "TechLead"

\* validate_final_report: the router after chief_justice.  final_report is an
\* Optional whose value carries its Python type: a str has none of the
\* attributes the router asks for.
validate_final_report(fr, dimensions) ==
    IF IsNone(fr) \/ (The(fr).type = "str" /\ The(fr).len = 0) THEN "incomplete"
    ELSE IF The(fr).type # "AuditReport" THEN "incomplete"
    ELSE LET r == The(fr).of
         IN  IF /\ r.executive_summary.len >= 100
                /\ r.criteria # << >>
                /\ r.remediation_plan.len >= 100
                /\ Len(r.criteria) >= Len(dimensions)
                /\ \A i \in 1..Len(r.criteria) :
                      /\ r.criteria[i].final_score >= 1 /\ r.criteria[i].final_score <= 5
                      /\ Len(r.criteria[i].judge_opinions) = 3
                      /\ r.criteria[i].remediation.len >= 50
                      /\ { r.criteria[i].judge_opinions[j].judge : j \in 1..3 } = Judges
                /\ ~FracLess(r.overall_score, Frac(1, 1))
                /\ ~FracLess(Frac(5, 1), r.overall_score)
             THEN "complete"
             ELSE "incomplete"

\* Merging a completed node's update into the state, and recording it.
Commit(n, update) ==
    /\ evidences' = IF "evidences" \in DOMAIN update
                    THEN operator_ior(evidences, update.evidences) ELSE evidences
    /\ opinions' = IF "opinions" \in DOMAIN update
                   THEN operator_add(opinions, update.opinions) ELSE opinions
    /\ returned' = (n :> update) @@ returned
    /\ arrival' = Append(arrival, n)
    /\ node' = [node EXCEPT ![n] = "done"]
    /\ started_after' = [started_after EXCEPT ![n] = Done]
    /\ UNCHANGED << run, raised >>

\* An exception that leaves a node leaves graph.invoke.
Fail(n, e) ==
    /\ node' = [node EXCEPT ![n] = "raised"]
    /\ started_after' = [started_after EXCEPT ![n] = Done]
    /\ run' = "raised"
    /\ raised' = e
    /\ UNCHANGED << evidences, opinions, returned, arrival >>

Runnable(n) ==
    /\ run = "running"
    /\ node[n] = "idle"
    /\ Triggered(n, Done)

JusticeUnchanged ==
    UNCHANGED << rubric_dimensions, final_report, report, criterion_results, call, result >>

\* A node ends: its update is merged, or its exception leaves the graph.
Ends(n, out) ==
    IF IsNone(out.update) THEN Fail(n, Some(The(out.raised).type)) ELSE Commit(n, The(out.update))

RepoInvestigator ==
    /\ Runnable("repo_investigator")
    /\ \E clone \in { None, Some(RepositoryCloneError) }, health \in GeneralChecks :
       \E checks \in ChecksFor(rubric_dimensions, "github_repo", RepoChecks) :
          \E out \in { repo_investigator_node(rubric_dimensions, clone, checks, health,
                                              Protocol(None, << FINDING_GENERAL >>)) } :
              Ends("repo_investigator", out)
    /\ JusticeUnchanged

DocAnalyst ==
    /\ Runnable("doc_analyst")
    /\ \E ingest \in Ingests :
       \E checks \in ChecksFor(rubric_dimensions, "pdf_report", {}) :
          \E out \in { doc_analyst_node(rubric_dimensions, ingest, checks) } :
              Ends("doc_analyst", out)
    /\ JusticeUnchanged

VisionInspector ==
    /\ Runnable("vision_inspector")
    /\ \E extract \in { None, Some(OSError) } :
       \E checks \in ChecksFor(rubric_dimensions, "pdf_images", VisionChecks) :
          \E out \in { vision_inspector_node(rubric_dimensions, extract, checks) } :
              Ends("vision_inspector", out)
    /\ JusticeUnchanged

EvidenceAggregator ==
    /\ Runnable("evidence_aggregator")
    /\ \E scan \in Scans :
          \E out \in { evidence_aggregator_node(evidences, scan) } :
              Ends("evidence_aggregator", out)
    /\ JusticeUnchanged

\* The keys of evidences in insertion order.
EvidenceKeys ==
    LET writers == SelectSeq(arrival, LAMBDA n : n \in Detectives \cup { "evidence_aggregator" })
    IN  [i \in 1..Len(writers) |-> KeyOf(writers[i])]

Judge(n) ==
    /\ Runnable(n)
    /\ \E answer \in LLMAnswers :
          \E out \in { judge_node(PersonaOf(n), rubric_dimensions, evidences, EvidenceKeys,
                                  answer) } :
              IF IsNone(out.update) THEN Fail(n, out.raised) ELSE Commit(n, The(out.update))
    /\ JusticeUnchanged

Prosecutor == Judge("prosecutor")

Defense == Judge("defense")

TechLead == Judge("tech_lead")

\* git_commit_hash as repo_investigator returned it ("" in the initial state)
GitCommitHash ==
    IF "repo_investigator" \in DOMAIN returned
    THEN returned["repo_investigator"].git_commit_hash ELSE [len |-> 0]

\* chief_justice_node, then the conditional edge: END on "complete", and
\* chief_justice again on "incomplete".
ChiefJustice ==
    /\ Runnable("chief_justice")
    /\ \E out \in { chief_justice_node(AgentState(rubric_dimensions, opinions, HTTPS_URL,
                                                  GitCommitHash)) } :
           /\ criterion_results' = out.criterion_results
           /\ report' = out.report
           /\ started_after' = [started_after EXCEPT !["chief_justice"] = Done]
           /\ raised' = out.raised
           /\ IF IsNone(out.update)
              THEN /\ node' = [node EXCEPT !["chief_justice"] = "raised"]
                   /\ run' = "raised"
                   /\ UNCHANGED << final_report, returned >>
              ELSE /\ final_report' = Some(The(out.update).final_report)
                   /\ returned' = ("chief_justice" :> The(out.update)) @@ returned
                   /\ IF validate_final_report(final_report', rubric_dimensions) = "complete"
                      THEN /\ node' = [node EXCEPT !["chief_justice"] = "done"]
                           /\ run' = "END"
                      ELSE /\ node' = [node EXCEPT !["chief_justice"] = "idle"]
                           /\ run' = "running"
    /\ UNCHANGED << rubric_dimensions, evidences, opinions, arrival, call, result >>

\* run_audit: the initial state handed to graph.invoke.
Init ==
    /\ rubric_dimensions \in Rubrics
    /\ evidences = << >>
    /\ opinions = << >>
    /\ final_report = None
    /\ node = [n \in Nodes |-> "idle"]
    /\ returned = << >>
    /\ arrival = << >>
    /\ started_after = [n \in Nodes |-> {}]
    /\ run = "running"
    /\ report = None
    /\ criterion_results = << >>
    /\ raised = None
    /\ call = [op |-> "none"]
    /\ result = None

Next ==
    \/ RepoInvestigator
    \/ DocAnalyst
    \/ VisionInspector
    \/ EvidenceAggregator
    \/ Prosecutor
    \/ Defense
    \/ TechLead
    \/ ChiefJustice

Spec == Init /\ [][Next]_vars

-----------------------------------------------------------------------------
(* Properties of the direct calls (checked under SpecCalls).               *)

\* chief_justice_node has been called and has ended.
ChiefJusticeCalled == call.op = "chief_justice_node" /\ ~IsNone(result)

\* The constructor named by op has been called and has returned an object.
Constructed(op) ==
    call.op = op /\ ~IsNone(result) /\ IsNone(The(result).raised)

RubricIds(dimensions) == [i \in 1..Len(dimensions) |-> dimensions[i].id]

\* The opinions of the call's state for one criterion.
CalledOpinionsFor(criterion_id) ==
    SelectSeq(CallState(call).opinions, LAMBDA op : op.criterion_id = criterion_id)

\* The personas with an opinion for one criterion in the call's state.
CalledPersonasFor(criterion_id) ==
    { CalledOpinionsFor(criterion_id)[i].judge : i \in 1..Len(CalledOpinionsFor(criterion_id)) }

\* C1: for every rubric and every opinions list (dimensions with zero, one,
\* two or duplicate opinions included), chief_justice_node builds a report whose
\* criteria list has one CriterionResult per rubric dimension, in rubric order.
C1_CriteriaComplete ==
    ChiefJusticeCalled =>
        /\ ~IsNone(The(result).report)
        /\ IdsOf(The(The(result).report).criteria) = RubricIds(call.rubric)

\* The loop of chief_justice_node reached the i-th rubric dimension: it built a
\* result for each of the dimensions before it.
LoopReached(i) == Len(The(result).criterion_results) >= i - 1

\* C2: for a dimension without any opinion, chief_justice_node yields a
\* CriterionResult with final_score 1, the fixed "no opinions" dissent_summary
\* and the generic "Implement <name> ..." remediation, and goes on to the next
\* dimension without raising.
C2_NoOpinionsDefault ==
    ChiefJusticeCalled =>
        \A i \in 1..Len(call.rubric) :
            LET dimension == call.rubric[i]
            IN  (LoopReached(i) /\ CalledOpinionsFor(dimension.id) = << >>) =>
                    /\ Len(The(result).criterion_results) >= i
                    /\ The(result).criterion_results[i].dimension_id = dimension.id
                    /\ The(result).criterion_results[i].final_score = 1
                    /\ The(result).criterion_results[i].dissent_summary = Some(NoOpinionsDissent)
                    /\ The(result).criterion_results[i].remediation
                           = NoOpinionsRemediation(dimension.name)

\* The result carries a dissent text (not None and not empty).
HasDissent(cr) == ~IsNone(cr.dissent_summary) /\ The(cr.dissent_summary).len > 0

C4_ScoresInScale ==
    /\ (call.op = "JudicialOpinion" /\ ~IsNone(result) /\ call.score \notin 1..5)
           => The(result).raised = Some("ValidationError")
    /\ Constructed("JudicialOpinion") => The(The(result).value).score \in 1..5
    /\ (/\ call.op = "_synthesize_score"
        /\ ~IsNone(result)
        /\ PresentScores(call.prosecutor_score, call.defense_score, call.tech_lead_score) # << >>)
           => The(The(result).value) \in 1..5

\* _synthesize_score returned 5 for a dimension whose Tech Lead is missing.
C4_SynthesizedWithoutTechLead ==
    /\ call.op = "_synthesize_score"
    /\ ~IsNone(result)
    /\ IsNone(call.tech_lead_score)
    /\ ~IsNone(call.prosecutor_score)
    /\ The(The(result).value) = 5

MeanOf(criteria) == Frac(SumSeq(FinalScores(criteria)), Len(criteria))

\* C5: every AuditReport that exists has overall_score within 0.5 of the mean of
\* criteria[*].final_score: the constructor rejects a larger difference, and
\* chief_justice_node computes overall_score as exactly that mean.
C5_OverallScoreIsMean ==
    /\ Constructed("AuditReport") =>
           ~FracDiffExceeds(The(The(result).value).overall_score,
                            MeanOf(The(The(result).value).criteria), Frac(1, 2))
    /\ (/\ call.op = "AuditReport"
        /\ ~IsNone(result)
        /\ call.criteria # << >>
        /\ FracDiffExceeds(call.overall_score, MeanOf(call.criteria), Frac(1, 2)))
           => The(result).raised = Some("ValidationError")
    /\ (ChiefJusticeCalled /\ ~IsNone(The(result).report)) =>
           FracEq(The(The(result).report).overall_score,
                  MeanOf(The(The(result).report).criteria))

\* chief_justice_node built a report over two criteria with different scores.
C5_BuiltWithUnevenScores ==
    /\ ChiefJusticeCalled
    /\ ~IsNone(The(result).report)
    /\ Len(The(The(result).report).criteria) = 2
    /\ The(The(result).report).criteria[1].final_score
           # The(The(result).report).criteria[2].final_score

\* C10: for a dimension with opinions from only one or two personas,
\* chief_justice_node does not raise: it yields a valid CriterionResult for the
\* dimension, holding three opinions.
C10_MissingPersonaFallback ==
    ChiefJusticeCalled =>
        \A i \in 1..Len(call.rubric) :
            LET dimension == call.rubric[i]
            IN  (LoopReached(i) /\ Cardinality(CalledPersonasFor(dimension.id)) \in { 1, 2 }) =>
                    /\ Len(The(result).criterion_results) >= i
                    /\ The(result).criterion_results[i].dimension_id = dimension.id
                    /\ Constructs(The(result).criterion_results[i])
                    /\ Len(The(result).criterion_results[i].judge_opinions) = 3


-----------------------------------------------------------------------------
(* Properties of the audit graph (checked under Spec).                     *)

EvidenceWriters == Detectives \cup { "evidence_aggregator" }

Restrict(f, S) == [k \in S \cap DOMAIN f |-> f[k]]

\* A list as a multiset: each element with the number of its occurrences.
BagOfSeq(s) == [x \in Range(s) |-> Cardinality({ i \in 1..Len(s) : s[i] = x })]

\* C6: in every interleaving of the detectives' writes and the aggregator's,
\* evidences maps the key of every writer that has completed to exactly the list
\* that writer returned, all four keys once the four have completed; and in every
\* interleaving of the judges, opinions holds every opinion each completed judge
\* returned, none lost or overwritten.
C6_NoWriteLost ==
    /\ \A n \in EvidenceWriters : node[n] = "done" =>
           /\ KeyOf(n) \in DOMAIN evidences
           /\ evidences[KeyOf(n)] = returned[n].evidences[KeyOf(n)]
    /\ (\A n \in EvidenceWriters : node[n] = "done") =>
           DOMAIN evidences = { "repo", "doc", "vision", "cross_ref" }
    /\ \A n \in JudgeNodes : node[n] = "done" =>
           OpinionsOf(opinions, PersonaOf(n)) = returned[n].opinions
    /\ Len(opinions) = SumSeq([i \in 1..Len(arrival) |->
                                 IF arrival[i] \in JudgeNodes
                                 THEN Len(returned[arrival[i]].opinions) ELSE 0])

\* The four evidence writers and the three judges have completed, the vision
\* inspector's write first and the prosecutor's opinions last.
C6_AllWritten ==
    /\ \A n \in EvidenceWriters \cup JudgeNodes : node[n] = "done"
    /\ arrival[1] = "vision_inspector"
    /\ arrival[Len(arrival)] = "prosecutor"
    /\ opinions # << >>

\* The merge of the three detectives' returns, and of the three judges', in the
\* order repo, doc, vision and prosecutor, defense, tech_lead.
CanonicalEvidences ==
    operator_ior(operator_ior(operator_ior(<< >>, returned["repo_investigator"].evidences),
                              returned["doc_analyst"].evidences),
                 returned["vision_inspector"].evidences)

CanonicalOpinions ==
    operator_add(operator_add(operator_add(<< >>, returned["prosecutor"].opinions),
                              returned["defense"].opinions),
                 returned["tech_lead"].opinions)

\* C7: whatever the order in which the three detectives' dicts arrived, the
\* merged evidences is the same source-keyed mapping as their merge in the order
\* repo, doc, vision; whatever the order in which the three judges' lists arrived,
\* the merged opinions is the same multiset as their merge in the order
\* prosecutor, defense, tech_lead.
C7_ArrivalOrderIrrelevant ==
    /\ (\A n \in Detectives : node[n] = "done") =>
           Restrict(evidences, { "repo", "doc", "vision" }) = CanonicalEvidences
    /\ (\A n \in JudgeNodes : node[n] = "done") =>
           BagOfSeq(opinions) = BagOfSeq(CanonicalOpinions)

\* Both layers have been merged in the reverse of the canonical order.
C7_MergedInReverseOrder ==
    /\ arrival = << "vision_inspector", "doc_analyst", "repo_investigator",
                    "evidence_aggregator", "tech_lead", "defense", "prosecutor" >>
    /\ opinions # << >>

\* C8: evidence_aggregator does not start before the three detectives have
\* completed, no judge starts before evidence_aggregator has completed, and
\* chief_justice does not start before the three judges have completed.
C8_Barriers ==
    /\ node["evidence_aggregator"] # "idle" =>
           Detectives \subseteq started_after["evidence_aggregator"]
    /\ \A n \in JudgeNodes : node[n] # "idle" =>
           "evidence_aggregator" \in started_after[n]
    /\ node["chief_justice"] # "idle" =>
           JudgeNodes \subseteq started_after["chief_justice"]

\* chief_justice has started, behind both barriers.
C8_ChiefJusticeStarted ==
    /\ node["chief_justice"] # "idle"
    /\ node["evidence_aggregator"] = "done"

\* C9: once the three judges have completed and chief_justice has run, the run
\* is at END with the final_report chief_justice stored, which
\* validate_final_report classifies as "complete".
C9_ChiefJusticeReachesEnd ==
    ((\A n \in JudgeNodes : node[n] = "done") /\ node["chief_justice"] # "idle") =>
        /\ run = "END"
        /\ ~IsNone(final_report)
        /\ validate_final_report(final_report, rubric_dimensions) = "complete"

-----------------------------------------------------------------------------
(* Further properties of the direct calls (checked under SpecCalls).       *)

\* The list holds exactly three opinions, one of each judge, for one criterion.
ExactPanel(panel) ==
    /\ Len(panel) = 3
    /\ \A j \in Judges : Cardinality({ i \in 1..Len(panel) : panel[i].judge = j }) = 1
    /\ Cardinality({ panel[i].criterion_id : i \in 1..Len(panel) }) = 1

Synthesized == call.op = "_synthesize_score" /\ ~IsNone(result)

\* The scores handed to the _synthesize_score call that are not None.
CalledScores == Range(PresentScores(call.prosecutor_score, call.defense_score, call.tech_lead_score))

\* The Prosecutor's opinion in the list says, in any capitalisation, one of the
\* curated violation phrases.
ProsecutorNamesViolation(ops) ==
    /\ OpinionsOf(ops, "Prosecutor") # << >>
    /\ OpinionsOf(ops, "Prosecutor")[1].argument.violation \in { "lower", "mixed" }

\* C12: on safe_tool_engineering, whenever the Prosecutor's score is at most 2
\* and its argument contains, in any capitalisation, a curated violation phrase,
\* _synthesize_score returns min(3, max of the scores given), hence at most 3,
\* whatever Defense and TechLead scored; and chief_justice_node records that
\* score as the final_score of the dimension's CriterionResult.
C12_SecurityOverrideCaps ==
    /\ (/\ Synthesized
        /\ call.dimension_id = "safe_tool_engineering"
        /\ ~IsNone(call.prosecutor_score)
        /\ The(call.prosecutor_score) <= 2
        /\ ProsecutorNamesViolation(call.opinions))
           => /\ The(The(result).value) = Min({ 3, Max(CalledScores) })
              /\ The(The(result).value) <= 3
    /\ ChiefJusticeCalled =>
           \A k \in 1..Len(The(result).criterion_results) :
               LET cr == The(result).criterion_results[k]
               IN  (/\ cr.dimension_id = "safe_tool_engineering"
                    /\ ProsecutorNamesViolation(cr.judge_opinions)
                    /\ OpinionsOf(cr.judge_opinions, "Prosecutor")[1].score <= 2)
                       => cr.final_score = Min({ 3, Max(Range(ScoresOf(cr.judge_opinions))) })

\* _synthesize_score returned 3 on safe_tool_engineering for Prosecutor 1,
\* Defense 5, TechLead 5 and a Prosecutor argument that writes the violation
\* phrase with capitals.
C12_OverrideCappedFives ==
    /\ Synthesized
    /\ call.dimension_id = "safe_tool_engineering"
    /\ call.prosecutor_score = Some(1)
    /\ call.defense_score = Some(5)
    /\ call.tech_lead_score = Some(5)
    /\ OpinionsOf(call.opinions, "Prosecutor")[1].argument.violation = "mixed"
    /\ The(The(result).value) = 3

\* The conditions of Rule 1 and of Rule 3, in the terms of the rules' texts.
OverrideApplies(dimension_id, p, ops) ==
    /\ dimension_id = "safe_tool_engineering"
    /\ ~IsNone(p)
    /\ The(p) <= 2
    /\ ProsecutorNamesViolation(ops)

FunctionalityApplies(dimension_id, t) ==
    /\ dimension_id = "graph_orchestration"
    /\ ~IsNone(t)
    /\ (The(t) >= 4 \/ The(t) <= 2)

\* What the variance rule prescribes for a set of scores and the TechLead's score.
ReevaluatedScore(S, t) ==
    IF ~IsNone(t) /\ Min(S) < The(t) /\ The(t) < Max(S)
    THEN The(t)
    ELSE IF Min(S) < 3 THEN Min(S) + 1 ELSE Min(S)

\* C13: where neither Security Override nor Functionality Weight fires and
\* max(scores) - min(scores) > 2, _synthesize_score returns the TechLead's score
\* if that lies strictly between min and max, and otherwise min(scores) + 1 if
\* min(scores) < 3, else min(scores); chief_justice_node records that score as
\* the final_score of the CriterionResult.
C13_VarianceReevaluation ==
    /\ (/\ Synthesized
        /\ CalledScores # {}
        /\ ~OverrideApplies(call.dimension_id, call.prosecutor_score, call.opinions)
        /\ ~FunctionalityApplies(call.dimension_id, call.tech_lead_score))
           => (Max(CalledScores) - Min(CalledScores) > 2
                  => The(The(result).value) = ReevaluatedScore(CalledScores, call.tech_lead_score))
    /\ ChiefJusticeCalled =>
           \A k \in 1..Len(The(result).criterion_results) :
               LET cr == The(result).criterion_results[k]
                   ops == cr.judge_opinions
                   S == Range(ScoresOf(ops))
               IN  (/\ ~OverrideApplies(cr.dimension_id, ScoreOf(ops, "Prosecutor"), ops)
                    /\ ~FunctionalityApplies(cr.dimension_id, ScoreOf(ops, "TechLead"))
                    /\ Max(S) - Min(S) > 2)
                       => cr.final_score = ReevaluatedScore(S, ScoreOf(ops, "TechLead"))

\* _synthesize_score returned 2 for Prosecutor 1, Defense 2, TechLead 5 where
\* neither of the first two rules applies: the TechLead is not between the
\* extremes, so the result is min + 1.
C13_ConservativeFallback ==
    /\ Synthesized
    /\ call.prosecutor_score = Some(1)
    /\ call.defense_score = Some(2)
    /\ call.tech_lead_score = Some(5)
    /\ ~OverrideApplies(call.dimension_id, call.prosecutor_score, call.opinions)
    /\ ~FunctionalityApplies(call.dimension_id, call.tech_lead_score)
    /\ The(The(result).value) = 2

\* The rule of _synthesize_score that sets the score of a list of opinions on a
\* dimension, by the names the audit trail is to use.
RuleFor(dimension_id, ops) ==
    LET p == ScoreOf(ops, "Prosecutor")
        t == ScoreOf(ops, "TechLead")
        S == Range(ScoresOf(ops))
    IN  IF ops = << >> THEN "no_opinions_default"
        ELSE IF OverrideApplies(dimension_id, p, ops) THEN "security_override"
        ELSE IF FunctionalityApplies(dimension_id, t) THEN "functionality_weight"
        ELSE IF Max(S) - Min(S) > 2 THEN "variance_reevaluation"
        ELSE "weighted_average"

\* C14: every CriterionResult, accepted by the constructor or built by
\* chief_justice_node, has a rules_fired field, and in those chief_justice_node
\* builds it names the rule that set final_score: weighted_average on the default
\* path, no_opinions_default without opinions, and otherwise the override,
\* functionality or variance rule.
C14_RulesFiredRecorded ==
    /\ Constructed("CriterionResult") => "rules_fired" \in DOMAIN The(The(result).value)
    /\ ChiefJusticeCalled =>
           \A k \in 1..Len(The(result).criterion_results) :
               LET cr == The(result).criterion_results[k]
               IN  /\ "rules_fired" \in DOMAIN cr
                   /\ cr.rules_fired = << RuleFor(cr.dimension_id, cr.judge_opinions) >>

\* The detective named by op has been called and has ended.
DetectiveCalled(op) == call.op = op /\ ~IsNone(result)

\* The artifact whose dimensions the called detective answers, and its dict key.
CalledArtifact == IF call.op = "repo_investigator_node" THEN "github_repo" ELSE "pdf_report"
CalledKey == IF call.op = "repo_investigator_node" THEN "repo" ELSE "doc"

\* The try block of the i-th dimension of the call raised: the tool did, or the
\* construction of an Evidence from its answer did.
CheckRaised(i) ==
    /\ call.rubric[i].target_artifact = CalledArtifact
    /\ ~IsNone(RunProtocol(<< >>, call.rubric[i].id, call.checks[i]).raised)

\* The call got as far as the loop over the dimensions, and nothing but the
\* dimensions' checks raised.
OnlyChecksRaise ==
    IF call.op = "repo_investigator_node"
    THEN /\ IsNone(call.clone)
         /\ IsNone(call.health.raises)
         /\ IsNone(call.quality.raises)
    ELSE IsNone(call.ingest.raises) /\ call.ingest.success

\* C15: when the check of a rubric dimension raises inside repo_investigator_node
\* or doc_analyst_node, the node returns, its evidence list holds an Evidence
\* with found = False and confidence 0.0 under that dimension's id, and every
\* other dimension of the node's artifact has its Evidence in the list too.
C15_FailingCheckRecorded ==
    ((DetectiveCalled("repo_investigator_node") \/ DetectiveCalled("doc_analyst_node"))
        /\ OnlyChecksRaise) =>
        \A i \in 1..Len(call.rubric) :
            CheckRaised(i) =>
                /\ ~IsNone(The(result).update)
                /\ LET evidence_list == The(The(result).update).evidences[CalledKey]
                   IN  /\ \E k \in 1..Len(evidence_list) :
                              /\ evidence_list[k].criterion_id = call.rubric[i].id
                              /\ ~evidence_list[k].found
                              /\ FracEq(evidence_list[k].confidence, Confidence(0))
                       /\ \A j \in 1..Len(call.rubric) :
                              call.rubric[j].target_artifact = CalledArtifact =>
                                  \E k \in 1..Len(evidence_list) :
                                      evidence_list[k].criterion_id = call.rubric[j].id


\* The aggregator's inputs as the called node reads them: the paths the doc
\* detective's report_accuracy Evidence claims, and the file names the node
\* knows of.
CalledClaims ==
    ClaimedBy(IF "doc" \in DOMAIN call.evidences THEN call.evidences["doc"] ELSE << >>)
CalledFilenames ==
    LET repo_evidence == IF "repo" \in DOMAIN call.evidences THEN call.evidences["repo"] ELSE << >>
    IN  { The(LocationFilename(repo_evidence[i].location)) :
            i \in { j \in 1..Len(repo_evidence) :
                      ~IsNone(LocationFilename(repo_evidence[j].location)) } }
        \cup (IF IsNone(call.scan) THEN {} ELSE The(call.scan))

\* C16: for every claimed path whose filename is not a known file name,
\* evidence_aggregator_node completes normally and returns under cross_ref an
\* Evidence with criterion_id report_accuracy and found = False on that path.
C16_HallucinationReturned ==
    (call.op = "evidence_aggregator_node" /\ ~IsNone(result)) =>
        \A i \in 1..Len(CalledClaims) :
            PathName(CalledClaims[i]) \notin CalledFilenames =>
                /\ IsNone(The(result).raised)
                /\ ~IsNone(The(result).update)
                /\ LET cross_ref_evidence == The(The(result).update).evidences["cross_ref"]
                   IN  \E k \in 1..Len(cross_ref_evidence) :
                           /\ cross_ref_evidence[k].criterion_id = "report_accuracy"
                           /\ ~cross_ref_evidence[k].found
                           /\ cross_ref_evidence[k].location = CrossRefLocation(CalledClaims[i])


\* C17: when writing the report to disk fails, no exception reaches the
\* caller: _persist_report_to_disk returns, and run_audit returns the final
\* state it got from the graph.
C17_PersistFailureNotRaised ==
    /\ (call.op = "_persist_report_to_disk" /\ ~IsNone(result) /\ call.disk # "ok") =>
           IsNone(The(result).raised)
    /\ (call.op = "run_audit" /\ ~IsNone(result) /\ call.disk # "ok") =>
           /\ IsNone(The(result).raised)
           /\ The(result).returned = Some(call.final_state)


\* found = True with confidence < 0.3, or found = False with confidence > 0.5
BreaksConfidenceBounds(ev) ==
    \/ ev.found /\ FracLess(ev.confidence, Confidence(30))
    \/ ~ev.found /\ FracLess(Confidence(50), ev.confidence)

\* The Evidence records a detective's call returned, under any key.
ReturnedEvidence ==
    IF DetectiveCalled("repo_investigator_node") \/ DetectiveCalled("doc_analyst_node")
       \/ (call.op = "evidence_aggregator_node" /\ ~IsNone(result))
    THEN IF IsNone(The(result).update) THEN {}
         ELSE LET evs == The(The(result).update).evidences
              IN  { evs[k][i] : <<k, i>> \in { <<k, i>> \in (DOMAIN evs) \X (1..8) : i <= Len(evs[k]) } }
    ELSE {}

StandaloneScore(criterion_id) ==
    LET ops == CalledOpinionsFor(criterion_id)
    IN  _synthesize_score(ScoreOf(ops, "Prosecutor"), ScoreOf(ops, "Defense"),
                          ScoreOf(ops, "TechLead"), ops, CallState(call).synthesis_rules,
                          criterion_id)

OtherRulesScore(dimension_id, p, d, t) ==
    LET S == Range(PresentScores(p, d, t))
    IN  IF FunctionalityApplies(dimension_id, t)
        THEN (IF The(t) >= 4 THEN Max(S) ELSE Min(S))
        ELSE IF Max(S) - Min(S) > 2 THEN ReevaluatedScore(S, t)
        ELSE WeightedAverage(p, d, t)

WithoutFunctionalityScore(dimension_id, p, d, t, ops) ==
    LET S == Range(PresentScores(p, d, t))
    IN  IF OverrideApplies(dimension_id, p, ops) THEN Min({ 3, Max(S) })
        ELSE IF Max(S) - Min(S) > 2 THEN ReevaluatedScore(S, t)
        ELSE WeightedAverage(p, d, t)

\* C21: on graph_orchestration a TechLead score of 4 or 5 makes the result the
\* maximum of the scores given and a TechLead score of 1 or 2 the minimum,
\* whatever the spread; with a TechLead score of 3 or none, and on every other
\* dimension, the result is the one the other rules produce.
C21_FunctionalityWeight ==
    (Synthesized /\ CalledScores # {}) =>
        LET t == call.tech_lead_score
            value == The(The(result).value)
        IN  IF call.dimension_id = "graph_orchestration" /\ ~IsNone(t) /\ The(t) >= 4
            THEN value = Max(CalledScores)
            ELSE IF call.dimension_id = "graph_orchestration" /\ ~IsNone(t) /\ The(t) <= 2
            THEN value = Min(CalledScores)
            ELSE value = WithoutFunctionalityScore(call.dimension_id, call.prosecutor_score,
                                                   call.defense_score, t, call.opinions)

\* _synthesize_score returned 5 on graph_orchestration for Prosecutor 1,
\* Defense 1, TechLead 5: the maximum, with a spread of 4.
C21_TechLeadLiftsToMax ==
    /\ Synthesized
    /\ call.dimension_id = "graph_orchestration"
    /\ call.prosecutor_score = Some(1)
    /\ call.defense_score = Some(1)
    /\ call.tech_lead_score = Some(5)
    /\ The(The(result).value) = 5


\* No rule before the default one decides the score of the call.
DefaultRuleReached ==
    /\ CalledScores # {}
    /\ ~OverrideApplies(call.dimension_id, call.prosecutor_score, call.opinions)
    /\ ~FunctionalityApplies(call.dimension_id, call.tech_lead_score)
    /\ Max(CalledScores) - Min(CalledScores) <= 2

\* n is an integer nearest to num / den (den > 0): no further from it than 1/2.
NearestTo(n, num, den) == 2 * Abs(n * den - num) <= den

\* C22: where no earlier rule fires, the result is an integer nearest to the
\* mean of the scores given, weighted 0.4 for the TechLead and 0.3 for the
\* Prosecutor and the Defense over the personas present, and lies in 1..5;
\* three equal scores s give s, and chief_justice_node records them without a
\* dissent_summary.
C22_WeightedAverage ==
    /\ (Synthesized /\ DefaultRuleReached) =>
           LET value == The(The(result).value)
               p == call.prosecutor_score
               d == call.defense_score
               t == call.tech_lead_score
           IN  /\ NearestTo(value, WeightedSum(p, d, t), WeightTotal(p, d, t))
               /\ value \in 1..5
               /\ (Cardinality(CalledScores) = 1 /\ Len(PresentScores(p, d, t)) = 3)
                      => value \in CalledScores
    /\ ChiefJusticeCalled =>
           \A k \in 1..Len(The(result).criterion_results) :
               LET cr == The(result).criterion_results[k]
                   S == Range(ScoresOf(cr.judge_opinions))
               IN  (Len(cr.judge_opinions) = 3 /\ Cardinality(S) = 1)
                       => S = { cr.final_score } /\ IsNone(cr.dissent_summary)

\* _synthesize_score returned 1 for TechLead 1 and Prosecutor 2 without a
\* Defense score: (0.4 * 1 + 0.3 * 2) / 0.7 = 1.43, where the plain mean is 1.5.
C22_TechLeadOutweighs ==
    /\ Synthesized
    /\ DefaultRuleReached
    /\ call.tech_lead_score = Some(1)
    /\ call.prosecutor_score = Some(2)
    /\ IsNone(call.defense_score)
    /\ The(The(result).value) = 1


\* The weighted mean of the call's scores is exactly halfway between two integers.
MeanIsTie ==
    LET num == WeightedSum(call.prosecutor_score, call.defense_score, call.tech_lead_score)
        den == WeightTotal(call.prosecutor_score, call.defense_score, call.tech_lead_score)
    IN  den > 0 /\ 2 * (num % den) = den

\* C23: where the default rule is reached and the weighted mean is exactly
\* halfway between two integers, the result is the larger of the two.
C23_TieRoundsUp ==
    (Synthesized /\ DefaultRuleReached /\ MeanIsTie) =>
        LET num == WeightedSum(call.prosecutor_score, call.defense_score, call.tech_lead_score)
            den == WeightTotal(call.prosecutor_score, call.defense_score, call.tech_lead_score)
        IN  The(The(result).value) = (num \div den) + 1


-----------------------------------------------------------------------------
(* C24: a judge node returns one opinion per rubric dimension.             *)

JudgeNodeCalled == call.op = "judge_node" /\ ~IsNone(result)

\* The opinions a call of judge_node returned are one per dimension of the
\* rubric, in rubric order, each tagged with the persona and the dimension.
OnePerDimension(out, persona, rubric) ==
    /\ ~IsNone(out.update)
    /\ Len(The(out.update).opinions) = Len(rubric)
    /\ \A i \in 1..Len(rubric) :
          /\ The(out.update).opinions[i].judge = persona
          /\ The(out.update).opinions[i].criterion_id = rubric[i].id

\* C24: every call of a judge node returns exactly one JudicialOpinion per
\* rubric dimension, tagged with its persona and the dimension's id, whether
\* the dimension has no evidence or the LLM answers, fails to parse or raises.
C24_OneOpinionPerDimension ==
    JudgeNodeCalled => OnePerDimension(The(result), call.persona, call.rubric)

-----------------------------------------------------------------------------
(* C25: the remediation of a dimension that scored 4 or 5.                 *)

\* C25: for every dimension the loop of chief_justice_node reaches and whose
\* synthesized final_score is 4 or 5, the node passes the single sentence
\* "<name> meets requirements. Minor improvements may be possible." as the
\* remediation, validate_remediation accepts it, and the CriterionResult is
\* constructed and appended unless another validator rejects it.
C25_HighScoreMeetsRequirements ==
    ChiefJusticeCalled =>
        \A i \in 1..Len(call.rubric) :
            LET cr == CriterionArgs(call.rubric[i], CallState(call).opinions, "synthesis_rules")
            IN  (LoopReached(i) /\ cr.final_score >= 4) =>
                    /\ cr.remediation.text = "meets_requirements"
                    /\ RemediationValid(cr.remediation)
                    /\ (JudgeOpinionsValid(cr.judge_opinions)
                          /\ DissentSummaryValid(cr.final_score, cr.judge_opinions,
                                                 cr.dissent_summary)) =>
                            /\ Len(The(result).criterion_results) >= i
                            /\ The(result).criterion_results[i] = cr

-----------------------------------------------------------------------------
(* C26, C27: the texts of the report.                                      *)

ExecutiveSummaryCalled == call.op = "_generate_executive_summary" /\ ~IsNone(result)

\* The results of the call that the summary lists as strengths, and the others.
ListedStrengths ==
    { i \in 1..Len(call.results) :
        call.results[i].dimension_id \in Range(The(The(result).value).strengths) }

\* C26: no dimension left out of the strengths of the executive summary has
\* a strictly higher final_score than a dimension the summary lists.
C26_StrengthsAreHighest ==
    ExecutiveSummaryCalled =>
        \A i \in ListedStrengths : \A j \in (1..Len(call.results)) \ ListedStrengths :
            call.results[j].final_score <= call.results[i].final_score

RemediationPlanCalled == call.op = "_generate_comprehensive_remediation_plan" /\ ~IsNone(result)

\* The results of the call whose ids a bucket lists, in the order of the call.
InRubricOrder(bucket) ==
    bucket = IdsOf(SelectSeq(call.results, LAMBDA cr : cr.dimension_id \in Range(bucket)))

\* C27: in the remediation plan every CriterionResult is listed in exactly one
\* of the three buckets, the one of its final_score (<= 2 under Priority 1,
\* 3 under Priority 2, >= 4 under Priority 3), and each bucket keeps the order
\* of the results.
C27_PlanBuckets ==
    RemediationPlanCalled =>
        LET plan == The(The(result).value)
        IN  /\ \A i \in 1..Len(call.results) :
                  LET cr == call.results[i]
                  IN  /\ (cr.dimension_id \in Range(plan.critical)) <=> (cr.final_score <= 2)
                      /\ (cr.dimension_id \in Range(plan.medium))
                            <=> (2 < cr.final_score /\ cr.final_score < 4)
                      /\ (cr.dimension_id \in Range(plan.high)) <=> (cr.final_score >= 4)
            /\ Len(plan.critical) + Len(plan.medium) + Len(plan.high) = Len(call.results)
            /\ InRubricOrder(plan.critical)
            /\ InRubricOrder(plan.medium)
            /\ InRubricOrder(plan.high)

\* A plan of four results: two in the first bucket, one in each of the others.
C27_AllBucketsFilled ==
    /\ RemediationPlanCalled
    /\ FinalScores(call.results) = << 2, 5, 1, 3 >>
    /\ The(The(result).value).critical = << "safe_tool_engineering", "state_management_rigor" >>
    /\ The(The(result).value).medium = << "swarm_visual" >>
    /\ The(The(result).value).high = << "graph_orchestration" >>

-----------------------------------------------------------------------------
(* C28, C29: the synthesized score against the personas' scores.           *)

FinalScoreDeviates(final_score, judge_opinions) ==
    LET scores == ScoresOf(judge_opinions)
    IN  /\ (final_score < Min(Range(scores)) \/ final_score > Max(Range(scores)))
        /\ FracDiffExceeds(Frac(final_score, 1), Frac(SumSeq(scores), Len(scores)), Frac(3, 2))

\* C29: given at least one persona score, _synthesize_score returns a score
\* between the lowest and the highest of the scores given, whichever rule
\* applies; and no CriterionResult chief_justice_node goes to construct for a
\* dimension with opinions fails the final-score-deviation check.
C29_ScoreWithinRange ==
    /\ (Synthesized /\ CalledScores # {}) =>
           /\ Min(CalledScores) <= The(The(result).value)
           /\ The(The(result).value) <= Max(CalledScores)
    /\ ChiefJusticeCalled =>
           \A i \in 1..Len(call.rubric) :
               LET cr == CriterionArgs(call.rubric[i], CallState(call).opinions, "synthesis_rules")
               IN  (LoopReached(i) /\ cr.judge_opinions # << >>) =>
                       ~FinalScoreDeviates(cr.final_score, cr.judge_opinions)

\* Security Override fired on three scores of 2 and returned 2, the highest
\* score given, below its cap of 3.
C29_OverrideBoundedByMax ==
    /\ Synthesized
    /\ OverrideApplies(call.dimension_id, call.prosecutor_score, call.opinions)
    /\ CalledScores = { 2 }
    /\ ~IsNone(call.tech_lead_score)
    /\ The(The(result).value) = 2

-----------------------------------------------------------------------------
(* C30: the dissent summary of a split panel.                              *)

\* The spread of the persona scores chief_justice_node reads for a criterion.
CalledSpread(criterion_id) ==
    LET scores == Range(PresentScores(ScoreOf(CalledOpinionsFor(criterion_id), "Prosecutor"),
                                      ScoreOf(CalledOpinionsFor(criterion_id), "Defense"),
                                      ScoreOf(CalledOpinionsFor(criterion_id), "TechLead")))
    IN  Max(scores) - Min(scores)

\* C30: for a dimension on which the three personas each have an opinion and
\* max(scores) - min(scores) > 2, the dissent_summary chief_justice_node
\* passes to CriterionResult is a text of contrast sentences, never "No
\* significant dissent among judges.", and has at least 50 characters.
C30_SplitPanelHasDissent ==
    ChiefJusticeCalled =>
        \A i \in 1..Len(call.rubric) :
            LET cr == CriterionArgs(call.rubric[i], CallState(call).opinions, "synthesis_rules")
            IN  (/\ CalledPersonasFor(call.rubric[i].id) = Judges
                 /\ CalledSpread(call.rubric[i].id) > 2) =>
                    /\ ~IsNone(cr.dissent_summary)
                    /\ The(cr.dissent_summary) = _generate_dissent_summary(cr.judge_opinions)
                    /\ The(cr.dissent_summary) # NoSignificantDissent
                    /\ The(cr.dissent_summary).text = "contrast"
                    /\ The(cr.dissent_summary).len >= 50

\* Prosecutor (naming a violation in src/graph.py) and Defense agree on 1 and
\* the Tech Lead scores 4: the only contrast sentence is the Tech Lead's, and
\* the result was appended.
C30_TechLeadAloneDissents ==
    /\ ChiefJusticeCalled
    /\ call.variant = "violation"
    /\ call.slots[1] = [j \in Judges |-> IF j = "TechLead" THEN Some(4) ELSE Some(1)]
    /\ Len(The(result).criterion_results) >= 1
    /\ The(The(result).criterion_results[1].dissent_summary).text = "contrast"
    /\ The(The(result).criterion_results[1].dissent_summary).len = 174

=============================================================================
